---- MODULE Spec2Model ----
(***************************************************************************)
(* Model of the awl data plane and overlay host:                           *)
(*   src/application.go  P2p stream accounting (notifyBundle, counters)    *)
(*   src/vpn/vpn.go      Device (TUN readers, outbound channel, pool),     *)
(*                       Packet (Parse, RecalculateChecksum), WritePacket  *)
(* Each subsystem has its own specification over the shared variables; a   *)
(* subsystem's actions leave the other subsystems' variables unchanged.    *)
(***************************************************************************)
EXTENDS Integers, Sequences, FiniteSets, TLC

VARIABLES
  \* ---- P2p stream counters (src/application.go) ----
  openedStreams,          \* P2p.openedStreams (int64, atomic)
  totalStreamsInbound,    \* P2p.totalStreamsInbound (int64, atomic)
  totalStreamsOutbound,   \* P2p.totalStreamsOutbound (int64, atomic)
  stStage,                \* per stream: where its notifications stand
  stDir,                  \* per stream: stream.Stat().Direction
  lastRead,               \* the value the last counter getter returned
  \* ---- vpn.Device (src/vpn/vpn.go) ----
  rdPc,                   \* tunPacketsReader: "top", "read", "send", "done"
  data,                   \* tunPacketsReader's local variable data (*Packet)
  pkts,                   \* the Packet objects that exist, by pointer
  nextPtr,                \* the pointer the next check-out is named by
  outboundCh,             \* Device.outboundCh: queued pointers, oldest first
  pool,                   \* Device.outboundDataPool: pointers put back
  hand,                   \* the pointer the channel's consumer holds
  tunClosed,              \* Device.Close has closed the TUN device
  tunSupplied,            \* how many valid datagrams the TUN has delivered
  accepted,               \* datagrams that passed the reader's checks, in order
  received,               \* datagrams the consumer received, in order
  evPc,                   \* tunEventsReader: "range", "done"
  mtu,                    \* Device.mtu (int64, atomic)
  \* ---- inbound path: ReadFrom, Parse, WritePacket (src/vpn/vpn.go) ----
  wPc,                    \* "idle", "read", "parsed", "rejected", "returned",
                          \* "panicked", "put"
  wBuf,                   \* Packet.Buffer of the packet the path holds
  wPacket,                \* Packet.Packet
  wSrc,                   \* Packet.Src
  wDst,                   \* Packet.Dst
  wIsIPv6,                \* Packet.IsIPv6
  wOrig,                  \* Buffer as ReadFrom left it
  wSender,                \* senderIP of the WritePacket call
  wRet,                   \* what WritePacket returned: "none", "nil", "error"
  wTun,                   \* the calls of d.tun.Write for this packet
  wRecalcs,               \* the results of the direct calls of
                          \* RecalculateChecksum on this packet, in order
  \* ---- another user of the packet pool ----
  trips,                  \* calls of PutTempPacket(GetTempPacket()) so far
  tripHand,               \* the packet that user holds between its
                          \* GetTempPacket and its PutTempPacket
  \* ---- Application.Init and the P2p host (src/application.go) ----
  p2p,                    \* P2p: dht, basicHost, host, the notifee, the
                          \* event-bus subscription, ctx, reachability
  app,                    \* Application.Init: position, stream handlers
                          \* attached, background tasks started, result
  boot,                   \* P2p.Bootstrap: position, dials, result
  bus,                    \* the event bus: events emitted and queued, and
                          \* what Reachability() last returned
  closing,                \* P2p.Close: position, calls made, errors, result
  \* ---- the loop of Packet.ReadFrom (src/vpn/vpn.go) ----
  rf,                     \* one call of ReadFrom: position, totalRead, the
                          \* stream, data.Packet, the result
  \* ---- tunEventsReader (src/vpn/vpn.go) ----
  evLast                  \* the event tunEventsReader processed last, the
                          \* answer of d.tun.MTU() and Device.mtu before it

streamVars == <<openedStreams, totalStreamsInbound, totalStreamsOutbound,
                stStage, stDir, lastRead>>

tunVars == <<rdPc, data, pkts, nextPtr, outboundCh, pool, hand, tunClosed,
             tunSupplied, accepted, received, evPc, mtu>>

writeVars == <<wPc, wBuf, wPacket, wSrc, wDst, wIsIPv6, wOrig, wSender, wRet,
               wTun, wRecalcs>>

poolUserVars == <<trips, tripHand>>

hostVars == <<p2p, app, boot, bus, closing>>

readVars == <<rf>>

eventVars == <<evLast>>

vars == <<streamVars, tunVars, writeVars, poolUserVars, hostVars, readVars,
          eventVars>>

\* What the actions of one subsystem leave unchanged.
notStreamVars ==
  <<tunVars, writeVars, poolUserVars, hostVars, readVars, eventVars>>
notTunVars ==
  <<streamVars, writeVars, poolUserVars, hostVars, readVars, eventVars>>
notWriteVars ==
  <<streamVars, tunVars, poolUserVars, hostVars, readVars, eventVars>>
notHostVars ==
  <<streamVars, tunVars, writeVars, poolUserVars, readVars, eventVars>>
notReadVars ==
  <<streamVars, tunVars, writeVars, poolUserVars, hostVars, eventVars>>

(***************************************************************************)
(* ======================  P2p stream accounting  ======================== *)
(***************************************************************************)

\* Number of streams the network opens during a run.
MaxStreams == 3

Streams == 1..MaxStreams

\* network.Direction
DirUnknown == "DirUnknown"
DirInbound == "DirInbound"
DirOutbound == "DirOutbound"
Directions == {DirUnknown, DirInbound, DirOutbound}

\* Stages of one stream as seen by the notifyBundle:
\*   "none"    no OpenedStream notification has been delivered for it: the
\*             network has not opened it yet, or it was opened on the host
\*             (live since libp2p.New, line 277) before the bundle was
\*             registered with Notify (line 345)
\*   "opening" OpenedStreamF has executed atomic.AddInt64(&p.openedStreams, 1)
\*             and has not yet executed its switch on the direction
\*   "open"    OpenedStreamF has returned
\*   "closed"  ClosedStreamF has run after OpenedStreamF
\*   "closedEarly"  ClosedStreamF has run for a stream OpenedStreamF never
\*             saw
Stages == {"none", "opening", "open", "closed", "closedEarly"}

InitStreams ==
  /\ openedStreams = 0
  /\ totalStreamsInbound = 0
  /\ totalStreamsOutbound = 0
  /\ stStage = [s \in Streams |-> "none"]
  /\ stDir = [s \in Streams |-> DirUnknown]
  /\ lastRead = <<"none", 0>>

\* OpenedStreamF, first atomic operation (line 333). The swarm calls it once
\* for a stream s that it has just opened, with a non-nil stream; the
\* stream's direction d is fixed by the swarm.  For anything that is not a
\* stream (a nil stream) the callback logs and returns (lines 329-331).
OpenedStreamAdd(s, d) ==
  IF s \notin Streams
  THEN UNCHANGED vars
  ELSE /\ stStage[s] = "none"
       /\ openedStreams' = openedStreams + 1
       /\ stStage' = [stStage EXCEPT ![s] = "opening"]
       /\ stDir' = [stDir EXCEPT ![s] = d]
       /\ UNCHANGED <<totalStreamsInbound, totalStreamsOutbound, lastRead,
                    notStreamVars>>

\* OpenedStreamF, the switch on stream.Stat().Direction (lines 334-339):
\* one atomic add for an inbound or an outbound stream, nothing for any
\* other direction.
OpenedStreamDir(s) ==
  /\ stStage[s] = "opening"
  /\ stStage' = [stStage EXCEPT ![s] = "open"]
  /\ totalStreamsInbound' =
       IF stDir[s] = DirInbound THEN totalStreamsInbound + 1
                                ELSE totalStreamsInbound
  /\ totalStreamsOutbound' =
       IF stDir[s] = DirOutbound THEN totalStreamsOutbound + 1
                                 ELSE totalStreamsOutbound
  /\ UNCHANGED <<openedStreams, stDir, lastRead, notStreamVars>>

\* ClosedStreamF (lines 341-343): the callback ignores its stream argument
\* and subtracts one on every call, whether or not OpenedStreamF counted
\* the stream, and also for a nil stream (anything outside Streams).
ClosedStreamF(s) ==
  /\ openedStreams' = openedStreams - 1
  /\ stStage' = IF s \in Streams
                THEN [stStage EXCEPT
                        ![s] = IF @ \in {"none", "closedEarly"}
                               THEN "closedEarly" ELSE "closed"]
                ELSE stStage
  /\ UNCHANGED <<totalStreamsInbound, totalStreamsOutbound, stDir, lastRead,
               notStreamVars>>

\* The swarm notifies the close of a stream once: after the OpenedStream
\* notification of the stream has returned, or, for a stream that was
\* opened before the bundle was registered, with no such notification.
StreamClosed(s) ==
  /\ stStage[s] \in {"open", "none"}
  /\ ClosedStreamF(s)

\* The three getters: one atomic load each.
OpenStreamsCount ==
  /\ lastRead' = <<"open", openedStreams>>
  /\ UNCHANGED <<openedStreams, totalStreamsInbound, totalStreamsOutbound,
                 stStage, stDir, notStreamVars>>

TotalStreamsInbound ==
  /\ lastRead' = <<"inbound", totalStreamsInbound>>
  /\ UNCHANGED <<openedStreams, totalStreamsInbound, totalStreamsOutbound,
                 stStage, stDir, notStreamVars>>

TotalStreamsOutbound ==
  /\ lastRead' = <<"outbound", totalStreamsOutbound>>
  /\ UNCHANGED <<openedStreams, totalStreamsInbound, totalStreamsOutbound,
                 stStage, stDir, notStreamVars>>

(***************************************************************************)
(* ==========================  vpn.Device  =============================== *)
(***************************************************************************)

interfaceMTU == 3500
maxContentSize == interfaceMTU * 2
outboundChCap == 50
tunPacketOffset == 4

\* golang.org/x/net/ipv4, ipv6, net and wireguard/device constants
IPv4Version == 4
IPv4HeaderLen == 20
IPv6Version == 6
IPv6HeaderLen == 40
IPv4offsetSrc == 12
IPv4offsetDst == 16
IPv6offsetSrc == 8
IPv6offsetDst == 24
IPv4len == 4
IPv6len == 16

\* The nil *Packet.
NilPacket == 0

\* A slice that views part of an array: nil, or the half-open range lo..hi.
\* Packet views Buffer; Src and Dst view Packet.
NilView == [nil |-> TRUE, lo |-> 0, hi |-> 0]
View(lo, hi) == [nil |-> FALSE, lo |-> lo, hi |-> hi]
ViewLen(v) == v.hi - v.lo

\* What the TUN reader's Buffer holds: the datagram last read into it, by
\* its number in the TUN's stream of valid datagrams (0: none of them), its
\* first byte and its size.  new(Packet) is zeroed.
ZeroDgram == [id |-> 0, b0 |-> 0, size |-> 0]

\* new(Packet) (line 68)
NewPacket ==
  [Buffer |-> ZeroDgram, Packet |-> NilView, Src |-> NilView, Dst |-> NilView,
   IsIPv6 |-> FALSE]

\* Packet.clear: the views and the flag are dropped, Buffer is kept.
clear(p) ==
  [p EXCEPT !.Packet = NilView, !.Src = NilView, !.Dst = NilView,
            !.IsIPv6 = FALSE]

\* Packet.Parse on a packet of n bytes whose first byte is b0.  ok: the
\* result; set: whether Src, Dst and IsIPv6 were assigned; panic: packet[0]
\* was read from an empty packet.
ParseCore(b0, n) ==
  LET version == b0 \div 16
      none == [panic |-> FALSE, ok |-> FALSE, set |-> FALSE, Src |-> NilView,
               Dst |-> NilView, IsIPv6 |-> FALSE]
  IN  IF n = 0 THEN [none EXCEPT !.panic = TRUE]
      ELSE IF version = IPv4Version
      THEN IF n < IPv4HeaderLen THEN none
           ELSE [panic |-> FALSE, ok |-> TRUE, set |-> TRUE,
                 Src |-> View(IPv4offsetSrc, IPv4offsetSrc + IPv4len),
                 Dst |-> View(IPv4offsetDst, IPv4offsetDst + IPv4len),
                 IsIPv6 |-> FALSE]
      ELSE IF version = IPv6Version
      THEN IF n < IPv6HeaderLen THEN none
           ELSE [panic |-> FALSE, ok |-> TRUE, set |-> TRUE,
                 Src |-> View(IPv6offsetSrc, IPv6offsetSrc + IPv6len),
                 Dst |-> View(IPv6offsetDst, IPv6offsetDst + IPv6len),
                 IsIPv6 |-> TRUE]
      ELSE none

\* Packet.Parse on the reader's packet p: the result and p afterwards.
Parse(p) ==
  LET r == ParseCore(p.Buffer.b0, ViewLen(p.Packet))
  IN  [ok |-> r.ok,
       pkt |-> IF r.set
               THEN [p EXCEPT !.Src = r.Src, !.Dst = r.Dst, !.IsIPv6 = r.IsIPv6]
               ELSE p]

\* The n-th valid datagram of the TUN's stream: IPv4 and IPv6 datagrams of
\* the smallest size Parse accepts and of the largest size a read into
\* Buffer[:] at offset tunPacketOffset can return.
ValidDatagram(n) ==
  [id |-> n,
   b0 |-> IF n % 3 = 2 THEN 96 ELSE 69,
   size |-> IF n % 3 = 1 THEN IPv4HeaderLen
            ELSE IF n % 3 = 2 THEN IPv6HeaderLen
            ELSE maxContentSize - tunPacketOffset]

\* Reads of the TUN that the reader has to drop: an empty read, a size
\* above maxContentSize, a short IPv4 and a short IPv6 datagram, and a
\* version that is neither 4 nor 6.
JunkDatagrams ==
  { [id |-> 0, b0 |-> 69, size |-> 0],
    [id |-> 0, b0 |-> 69, size |-> maxContentSize + 1],
    [id |-> 0, b0 |-> 69, size |-> 1],
    [id |-> 0, b0 |-> 96, size |-> IPv6HeaderLen - 1],
    [id |-> 0, b0 |-> 80, size |-> IPv6HeaderLen] }

\* Packets the consumer of the outbound channel takes during a run.
MaxRecv == 2

\* tun.Event bits and the values d.tun.MTU() answers an update with.
TunEvents == (SUBSET {"EventUp", "EventDown", "EventMTUUpdate"}) \ {{}}
MtuAnswers ==
  { [err |-> TRUE, mtu |-> 0], [err |-> FALSE, mtu |-> 0 - 1],
    [err |-> FALSE, mtu |-> 1500], [err |-> FALSE, mtu |-> maxContentSize + 1] }

\* What tunDevice.MTU() answers NewDevice with (lines 55-58): interfaceMTU
\* for the device NewDevice opens itself, and for an existingTun also an MTU
\* above maxContentSize.
InitialMtus == {interfaceMTU, maxContentSize + 2000}

\* No MTU query made: the event processed had no EventMTUUpdate bit.
NoQuery == [err |-> FALSE, mtu |-> 0]

\* The device as NewDevice returns it (lines 55-73): mtu as tunDevice.MTU()
\* answered, an empty channel of capacity outboundChCap, an empty pool, both
\* readers started.
InitTun ==
  /\ rdPc = "top"
  /\ data = NilPacket
  /\ pkts = <<>>
  /\ nextPtr = 1
  /\ outboundCh = <<>>
  /\ pool = {}
  /\ hand = NilPacket
  /\ tunClosed = FALSE
  /\ tunSupplied = 0
  /\ accepted = <<>>
  /\ received = <<>>
  /\ evPc = "range"
  /\ mtu \in InitialMtus
  /\ evLast = [event |-> {}, q |-> NoQuery, old |-> mtu]

\* f with x mapped to v, x added to its domain if need be; f without x.
Bind(f, x, v) == [y \in DOMAIN f \cup {x} |-> IF y = x THEN v ELSE f[y]]
Unbind(f, x) == [y \in DOMAIN f \ {x} |-> f[y]]

\* GetTempPacket (lines 78-80): outboundDataPool.Get() hands out an object
\* that was put back (from) or, with from = NilPacket, a new(Packet).  The
\* object handed out is named nextPtr: after PutTempPacket nothing holds
\* its former pointer.
GetTempPacket(from) ==
  /\ from \in pool \cup {NilPacket}
  /\ pool' = pool \ {from}
  /\ pkts' = IF from = NilPacket
             THEN Bind(pkts, nextPtr, NewPacket)
             ELSE Bind(Unbind(pkts, from), nextPtr, pkts[from])
  /\ nextPtr' = nextPtr + 1

\* PutTempPacket without data.clear().
PutTempPacketNoClear(ptr) ==
  /\ pkts' = pkts
  /\ pool' = pool \cup {ptr}

\* PutTempPacket (lines 82-85)
PutTempPacket(ptr) ==
  /\ pkts' = [pkts EXCEPT ![ptr] = clear(pkts[ptr])]
  /\ pool' = pool \cup {ptr}

\* A loop head that checks a packet out on every iteration.
ReaderTopAlwaysGets ==
  /\ rdPc = "top"
  /\ rdPc' = "read"
  /\ \E from \in pool \cup {NilPacket} : GetTempPacket(from)
  /\ data' = nextPtr
  /\ UNCHANGED <<outboundCh, hand, tunClosed, tunSupplied, accepted, received,
                 evPc, mtu, notTunVars>>

\* tunPacketsReader, lines 153-157: check a packet out, or clear the one
\* kept after a drop.
ReaderTop ==
  /\ rdPc = "top"
  /\ rdPc' = "read"
  /\ IF data = NilPacket
     THEN /\ \E from \in pool \cup {NilPacket} : GetTempPacket(from)
          /\ data' = nextPtr
     ELSE /\ pkts' = [pkts EXCEPT ![data] = clear(pkts[data])]
          /\ UNCHANGED <<data, pool, nextPtr, notTunVars>>
  /\ UNCHANGED <<outboundCh, hand, tunClosed, tunSupplied, accepted, received,
                 evPc, mtu, notTunVars>>

\* The reader without its check of the size against maxContentSize.
ReaderGotNoSizeLimit(d) ==
  LET filled == [pkts[data] EXCEPT !.Buffer = d]
      sliced == [filled EXCEPT !.Packet =
                   View(tunPacketOffset, d.size + tunPacketOffset)]
      parsed == Parse(sliced)
  IN  IF d.size = 0
      THEN /\ pkts' = [pkts EXCEPT ![data] = filled]
           /\ rdPc' = "top"
           /\ UNCHANGED accepted
      ELSE /\ pkts' = [pkts EXCEPT ![data] = parsed.pkt]
           /\ rdPc' = IF parsed.ok THEN "send" ELSE "top"
           /\ accepted' = IF parsed.ok THEN Append(accepted, d.id) ELSE accepted

\* Lines 159-177 for a read that returned datagram d without an error.
ReaderGot(d) ==
  LET filled == [pkts[data] EXCEPT !.Buffer = d]
      sliced == [filled EXCEPT !.Packet =
                   View(tunPacketOffset, d.size + tunPacketOffset)]
      parsed == Parse(sliced)
  IN  IF d.size = 0 \/ d.size > maxContentSize
      THEN /\ pkts' = [pkts EXCEPT ![data] = filled]
           /\ rdPc' = "top"
           /\ UNCHANGED accepted
      ELSE /\ pkts' = [pkts EXCEPT ![data] = parsed.pkt]
           /\ rdPc' = IF parsed.ok THEN "send" ELSE "top"
           /\ accepted' = IF parsed.ok THEN Append(accepted, d.id) ELSE accepted

\* d.tun.Read returns the next valid datagram of the TUN's stream.
TunReadValid ==
  /\ rdPc = "read"
  /\ ~tunClosed
  /\ tunSupplied' = tunSupplied + 1
  /\ ReaderGot(ValidDatagram(tunSupplied + 1))
  /\ UNCHANGED <<data, nextPtr, outboundCh, pool, hand, tunClosed, received,
                 evPc, mtu, notTunVars>>

\* d.tun.Read returns a datagram the reader has to drop.
TunReadJunk ==
  /\ rdPc = "read"
  /\ ~tunClosed
  /\ \E d \in JunkDatagrams : ReaderGot(d)
  /\ UNCHANGED <<data, nextPtr, outboundCh, pool, hand, tunClosed, tunSupplied,
                 received, evPc, mtu, notTunVars>>

\* d.tun.Read on the closed device returns io.EOF (lines 160-161).
TunReadEOF ==
  /\ rdPc = "read"
  /\ tunClosed
  /\ rdPc' = "done"
  /\ UNCHANGED <<data, pkts, nextPtr, outboundCh, pool, hand, tunClosed,
                 tunSupplied, accepted, received, evPc, mtu, notTunVars>>

\* d.tun.Read fails with another error (lines 162-165).
TunReadError ==
  /\ rdPc = "read"
  /\ rdPc' = "done"
  /\ UNCHANGED <<data, pkts, nextPtr, outboundCh, pool, hand, tunClosed,
                 tunSupplied, accepted, received, evPc, mtu, notTunVars>>

\* A send that keeps the pointer: data = nil is missing.
ReaderSendKeepsData ==
  /\ rdPc = "send"
  /\ Len(outboundCh) < outboundChCap
  /\ outboundCh' = Append(outboundCh, data)
  /\ rdPc' = "top"
  /\ UNCHANGED <<data, pkts, nextPtr, pool, hand, tunClosed, tunSupplied,
                 accepted, received, evPc, mtu, notTunVars>>

\* A send that does not wait: with the channel full the packet is dropped.
ReaderSendOrDrop ==
  /\ rdPc = "send"
  /\ outboundCh' = IF Len(outboundCh) < outboundChCap
                   THEN Append(outboundCh, data) ELSE outboundCh
  /\ data' = NilPacket
  /\ rdPc' = "top"
  /\ UNCHANGED <<pkts, nextPtr, pool, hand, tunClosed, tunSupplied, accepted,
                 received, evPc, mtu, notTunVars>>

\* Lines 176-177: the send on the buffered channel, enabled while the
\* channel holds fewer than outboundChCap packets; then data = nil.
ReaderSend ==
  /\ rdPc = "send"
  /\ Len(outboundCh) < outboundChCap
  /\ outboundCh' = Append(outboundCh, data)
  /\ data' = NilPacket
  /\ rdPc' = "top"
  /\ UNCHANGED <<pkts, nextPtr, pool, hand, tunClosed, tunSupplied, accepted,
                 received, evPc, mtu, notTunVars>>

\* The consumer of OutboundChan() receives the oldest packet.
ConsumerRecv ==
  /\ hand = NilPacket
  /\ outboundCh # <<>>
  /\ Len(received) < MaxRecv
  /\ hand' = Head(outboundCh)
  /\ outboundCh' = Tail(outboundCh)
  /\ received' = Append(received, pkts[Head(outboundCh)].Buffer.id)
  /\ UNCHANGED <<rdPc, data, pkts, nextPtr, pool, tunClosed, tunSupplied,
                 accepted, evPc, mtu, notTunVars>>

\* The consumer returns its packet with PutTempPacket.
ConsumerPut ==
  /\ hand # NilPacket
  /\ PutTempPacket(hand)
  /\ hand' = NilPacket
  /\ UNCHANGED <<rdPc, data, nextPtr, outboundCh, tunClosed, tunSupplied,
                 accepted, received, evPc, mtu, notTunVars>>

\* Device.Close (lines 111-113): d.tun.Close().
Close ==
  /\ ~tunClosed
  /\ tunClosed' = TRUE
  /\ UNCHANGED <<rdPc, data, pkts, nextPtr, outboundCh, pool, hand,
                 tunSupplied, accepted, received, evPc, mtu, notTunVars>>

Min(a, b) == IF a < b THEN a ELSE b

\* How often the pool's other user makes its round trip, and how many valid
\* datagrams the TUN delivers while it does.
MaxTrips == 2
MaxSupply == 3

\* The TUN delivers one of its first MaxSupply valid datagrams.
TunReadValidSome ==
  /\ tunSupplied < MaxSupply
  /\ TunReadValid

InitPoolUser == trips = 0 /\ tripHand = NilPacket

\* d.PutTempPacket(d.GetTempPacket()), the inner call: the user checks an
\* object out (from the pool, or a new one).  The reader and the consumer
\* run between this step and the next.
RoundTripGet ==
  /\ trips < MaxTrips
  /\ tripHand = NilPacket
  /\ \E from \in pool \cup {NilPacket} : GetTempPacket(from)
  /\ tripHand' = nextPtr
  /\ UNCHANGED <<trips, rdPc, data, outboundCh, hand, tunClosed, tunSupplied,
                 accepted, received, evPc, mtu, streamVars, writeVars,
                 hostVars, readVars, eventVars>>

\* d.PutTempPacket(d.GetTempPacket()), the outer call: the object is
\* cleared and put back.
RoundTripPut ==
  /\ tripHand # NilPacket
  /\ PutTempPacket(tripHand)
  /\ tripHand' = NilPacket
  /\ trips' = trips + 1
  /\ UNCHANGED <<rdPc, data, nextPtr, outboundCh, hand, tunClosed,
                 tunSupplied, accepted, received, evPc, mtu, streamVars,
                 writeVars, hostVars, readVars, eventVars>>

\* tunEventsReader, one iteration (lines 116-147) for the event and the
\* answer q of d.tun.MTU().
TunEventsReaderEvent(event, q) ==
  /\ evPc = "range"
  /\ ~tunClosed
  /\ mtu' = IF "EventMTUUpdate" \in event /\ ~q.err /\ q.mtu >= 0
            THEN Min(q.mtu, maxContentSize)
            ELSE mtu
  /\ evLast' = [event |-> event,
                q |-> IF "EventMTUUpdate" \in event THEN q ELSE NoQuery,
                old |-> mtu]
  /\ UNCHANGED <<rdPc, data, pkts, nextPtr, outboundCh, pool, hand, tunClosed,
                 tunSupplied, accepted, received, evPc, streamVars, writeVars,
                 poolUserVars, hostVars, readVars>>

\* tunEventsReader: the range ends when the closed device has closed its
\* event channel.
TunEventsReaderExit ==
  /\ evPc = "range"
  /\ tunClosed
  /\ evPc' = "done"
  /\ UNCHANGED <<rdPc, data, pkts, nextPtr, outboundCh, pool, hand, tunClosed,
                 tunSupplied, accepted, received, mtu, notTunVars>>

(***************************************************************************)
(* ==========  inbound path: ReadFrom, Parse, WritePacket  =============== *)
(***************************************************************************)

ipv4offsetChecksum == 10
IPProtocolTCP == 6
IPProtocolUDP == 17

\* Device.localIP, as NewDevice was given it (4-octet form).
localIP == <<10, 66, 0, 1>>

\* The longest packet a stream delivers in this model.
MaxLen == 44

\* The longest header an IHL nibble can announce: 0x0f << 2.
MaxIPv4HeaderLen == 15 * 4

\* Packet.Buffer is modelled up to the last byte the inbound path can reach:
\* the TUN header, the packet, and the bytes a header of MaxIPv4HeaderLen
\* bytes covers (data.Packet[:ipHeaderLen] reslices within the capacity of
\* the slice, beyond its length).
WBufLen ==
  tunPacketOffset + (IF MaxLen > MaxIPv4HeaderLen THEN MaxLen
                     ELSE MaxIPv4HeaderLen)

\* What a stream delivers: a first byte (version 4 with every IHL nibble,
\* version 6, version 5), a protocol byte, a length.
FirstBytes == {64 + ihl : ihl \in 0..15} \cup {96, 80}
Protocols == {IPProtocolTCP, IPProtocolUDP, 1}
PacketLens == {0, IPv4HeaderLen - 1} \cup (IPv4HeaderLen..MaxLen)

\* The n bytes of the stream: first byte b0, protocol byte (offset 9)
\* proto, the other bytes all different from their neighbours.
StreamBytes(b0, proto, n) ==
  [i \in 1..n |-> IF i = 1 THEN b0
                  ELSE IF i = 10 THEN proto
                  ELSE (i * 37 + 11) % 256]

\* A packet from the pool keeps the Buffer of its last use (clear does not
\* touch Buffer); new(Packet) is zeroed.
StaleFills == {0, 238}

\* senderIP: 4-octet forms and the 16-octet form of 10.66.0.2 that
\* net.IPv4 and net.ParseIP return.
SenderIPs ==
  { <<192, 168, 1, 5>>, <<10, 66, 0, 2>>,
    <<0, 0, 0, 0, 0, 0, 0, 0, 0, 0, 255, 255, 10, 66, 0, 2>> }

\* d.tun.Write: everything written, fewer bytes written, an error.
TunWriteOutcomes == {"ok", "short", "err"}

InitWrite ==
  /\ wPc = "idle"
  /\ wBuf = [k \in 1..WBufLen |-> 0]
  /\ wPacket = NilView
  /\ wSrc = NilView
  /\ wDst = NilView
  /\ wIsIPv6 = FALSE
  /\ wOrig = [k \in 1..WBufLen |-> 0]
  /\ wSender = <<>>
  /\ wRet = "none"
  /\ wTun = <<>>
  /\ wRecalcs = <<>>

\* data.Packet[i] for the view pkt of the buffer buf.
PacketByte(buf, pkt, i) == buf[pkt.lo + i + 1]

\* The bytes of data.Packet[lo:hi].
PacketBytes(buf, pkt, lo, hi) == [k \in 1..(hi - lo) |-> buf[pkt.lo + lo + k]]

\* copy(dst, src) where dst is the room bytes of the buffer from offset at:
\* the shorter of the two lengths is copied.
Copy(buf, at, room, src) ==
  LET n == Min(room, Len(src))
  IN  [k \in 1..Len(buf) |-> IF k > at /\ k <= at + n THEN src[k - at]
                             ELSE buf[k]]

\* binary.BigEndian.PutUint16 on the slice that starts at offset at.
PutUint16(buf, at, v) == Copy(buf, at, 2, <<v \div 256, v % 256>>)

\* Packet.ReadFrom on a stream that delivers the bytes and then io.EOF, into
\* a packet from GetTempPacket whose Buffer holds stale everywhere.
ReadFrom(bytes, stale) ==
  /\ wPc = "idle"
  /\ wBuf' = [k \in 1..WBufLen |->
                IF k > tunPacketOffset /\ k <= tunPacketOffset + Len(bytes)
                THEN bytes[k - tunPacketOffset] ELSE stale]
  /\ wPacket' = View(tunPacketOffset, tunPacketOffset + Len(bytes))
  /\ wOrig' = wBuf'
  /\ wPc' = "read"
  /\ wSender' = <<>>
  /\ wRet' = "none"
  /\ wTun' = <<>>
  /\ wRecalcs' = <<>>
  /\ UNCHANGED <<wSrc, wDst, wIsIPv6, notWriteVars>>

\* Packet.Parse on the packet ReadFrom filled.
ParsePacket ==
  /\ wPc = "read"
  /\ LET n == ViewLen(wPacket)
         r == ParseCore(IF n = 0 THEN 0 ELSE PacketByte(wBuf, wPacket, 0), n)
     IN  /\ wPc' = IF r.panic THEN "panicked"
                   ELSE IF r.ok THEN "parsed" ELSE "rejected"
         /\ wSrc' = IF r.set THEN r.Src ELSE wSrc
         /\ wDst' = IF r.set THEN r.Dst ELSE wDst
         /\ wIsIPv6' = IF r.set THEN r.IsIPv6 ELSE wIsIPv6
  /\ UNCHANGED <<wBuf, wPacket, wOrig, wSender, wRet, wTun, wRecalcs,
                 notWriteVars>>

\* The sums below are uint32 in the source.  A buffer of maxContentSize
\* bytes holds at most maxContentSize / 2 words of at most 0xffff each, and
\* the pseudo-header adds less than 2^20: no sum reaches 2^32, nothing wraps.

\* for v > 0xffff { v = (v >> 16) + (v & 0xffff) }
RECURSIVE FoldCarries(_)
FoldCarries(v) ==
  IF v > 65535 THEN FoldCarries((v \div 65536) + (v % 65536)) ELSE v

\* for i := 0; i < len(buf)-1; i += 2 { v += uint32(Uint16(buf[i:])) }
RECURSIVE HeaderWords(_, _)
HeaderWords(buf, i) ==
  IF i < Len(buf) - 1
  THEN buf[i + 1] * 256 + buf[i + 2] + HeaderWords(buf, i + 2)
  ELSE 0

checksumIPv4Header(buf) ==
  LET words == HeaderWords(buf, 0)
      v == IF Len(buf) % 2 = 1 THEN words + buf[Len(buf)] * 256 ELSE words
  IN  65535 - FoldCarries(v)

\* for i := 0; i < length; i += 2 { csum += data[i] << 8; csum += data[i+1] }
RECURSIVE ChecksumWords(_, _, _)
ChecksumWords(bytes, i, csum) ==
  IF i < Len(bytes) - 1
  THEN ChecksumWords(bytes, i + 2, csum + bytes[i + 1] * 256 + bytes[i + 2])
  ELSE csum

tcpipChecksum(bytes, csum) ==
  LET length == Len(bytes) - 1
      words == ChecksumWords(bytes, 0, csum)
      v == IF Len(bytes) % 2 = 1 THEN words + bytes[length + 1] * 256
           ELSE words
  IN  65535 - FoldCarries(v)

checksumIPv4TCPUDP(headerAndPayload, protocol, srcIP, dstIP) ==
  LET totalLen == Len(headerAndPayload)
      csum == (srcIP[1] + srcIP[3]) * 256 + srcIP[2] + srcIP[4]
              + (dstIP[1] + dstIP[3]) * 256 + dstIP[2] + dstIP[4]
              + protocol + (totalLen % 65536) + (totalLen \div 65536)
  IN  tcpipChecksum(headerAndPayload, csum)

\* One case of the switch of RecalculateChecksum, for the checksum offset
\* off: panic when data.Packet[off:] is out of range or PutUint16 finds
\* fewer than two bytes; Buffer is the buffer at the return or at the panic.
RecalculateL4(buf, pkt, src, dst, ipHeaderLen, protocol, off) ==
  LET n == ViewLen(pkt)
  IN  IF off > n THEN [panic |-> TRUE, Buffer |-> buf]
      ELSE LET zeroed == Copy(buf, pkt.lo + off, n - off, <<0, 0>>)
               checksum ==
                 checksumIPv4TCPUDP(PacketBytes(zeroed, pkt, ipHeaderLen, n),
                                    protocol,
                                    PacketBytes(zeroed, pkt, src.lo, src.hi),
                                    PacketBytes(zeroed, pkt, dst.lo, dst.hi))
           IN  IF n - off < 2 THEN [panic |-> TRUE, Buffer |-> zeroed]
               ELSE [panic |-> FALSE,
                     Buffer |-> PutUint16(zeroed, pkt.lo + off, checksum)]

\* RecalculateChecksum without zeroing the header checksum field first.
RecalculateChecksumNoZero(buf, pkt, src, dst, isIPv6) ==
  IF isIPv6 THEN [panic |-> FALSE, Buffer |-> buf]
  ELSE LET ipHeaderLen == (PacketByte(buf, pkt, 0) % 16) * 4
           ipChecksum ==
             checksumIPv4Header(PacketBytes(buf, pkt, 0, ipHeaderLen))
           withIP == PutUint16(buf, pkt.lo + ipv4offsetChecksum, ipChecksum)
           protocol == PacketByte(withIP, pkt, 9)
       IN  IF protocol = IPProtocolTCP
           THEN RecalculateL4(withIP, pkt, src, dst, ipHeaderLen, protocol,
                              ipHeaderLen + 16)
           ELSE IF protocol = IPProtocolUDP
           THEN RecalculateL4(withIP, pkt, src, dst, ipHeaderLen, protocol,
                              ipHeaderLen + 6)
           ELSE [panic |-> FALSE, Buffer |-> withIP]

\* Packet.RecalculateChecksum on a parsed packet.
RecalculateChecksum(buf, pkt, src, dst, isIPv6) ==
  IF isIPv6 THEN [panic |-> FALSE, Buffer |-> buf]
  ELSE LET ipHeaderLen == (PacketByte(buf, pkt, 0) % 16) * 4
           zeroed == Copy(buf, pkt.lo + ipv4offsetChecksum,
                          ViewLen(pkt) - ipv4offsetChecksum, <<0, 0>>)
           ipChecksum ==
             checksumIPv4Header(PacketBytes(zeroed, pkt, 0, ipHeaderLen))
           withIP == PutUint16(zeroed, pkt.lo + ipv4offsetChecksum, ipChecksum)
           protocol == PacketByte(withIP, pkt, 9)
       IN  IF protocol = IPProtocolTCP
           THEN RecalculateL4(withIP, pkt, src, dst, ipHeaderLen, protocol,
                              ipHeaderLen + 16)
           ELSE IF protocol = IPProtocolUDP
           THEN RecalculateL4(withIP, pkt, src, dst, ipHeaderLen, protocol,
                              ipHeaderLen + 6)
           ELSE [panic |-> FALSE, Buffer |-> withIP]

\* How often this model calls RecalculateChecksum directly on one packet.
MaxRecalcs == 2

\* WritePacket from the rewrite of the addresses on: the two copies,
\* RecalculateChecksum, d.tun.Write and the return.
WriteRewritten(senderIP, outcome) ==
  LET withSrc == Copy(wBuf, wPacket.lo + wSrc.lo, ViewLen(wSrc), senderIP)
      withDst == Copy(withSrc, wPacket.lo + wDst.lo, ViewLen(wDst), localIP)
      r == RecalculateChecksum(withDst, wPacket, wSrc, wDst, wIsIPv6)
  IN  /\ wBuf' = r.Buffer
      /\ IF r.panic
         THEN /\ wPc' = "panicked"
              /\ UNCHANGED <<wRet, wTun>>
         ELSE /\ wPc' = "returned"
              /\ wTun' = Append(wTun,
                   [buf |-> SubSeq(r.Buffer, 1,
                                   tunPacketOffset + ViewLen(wPacket)),
                    offset |-> tunPacketOffset,
                    n |-> IF outcome = "ok" THEN ViewLen(wPacket) ELSE 0,
                    err |-> outcome = "err"])
              /\ wRet' = IF outcome = "err" THEN "error" ELSE "nil"

\* WritePacket without the IsIPv6 test.
WritePacketAnyVersion(senderIP, outcome) ==
  /\ wPc = "parsed"
  /\ wSender' = senderIP
  /\ WriteRewritten(senderIP, outcome)
  /\ UNCHANGED <<wPacket, wSrc, wDst, wIsIPv6, wOrig, wRecalcs, notWriteVars>>

\* data.RecalculateChecksum() called on the parsed packet as it stands; a
\* panic ends the inbound path.
Recalculate ==
  /\ wPc = "parsed"
  /\ Len(wRecalcs) < MaxRecalcs
  /\ LET r == RecalculateChecksum(wBuf, wPacket, wSrc, wDst, wIsIPv6)
     IN  /\ wBuf' = r.Buffer
         /\ wRecalcs' = Append(wRecalcs, r)
         /\ wPc' = IF r.panic THEN "panicked" ELSE "parsed"
  /\ UNCHANGED <<wPacket, wSrc, wDst, wIsIPv6, wOrig, wSender, wRet, wTun,
                 notWriteVars>>

\* Device.WritePacket(data, senderIP) on the parsed packet; outcome is what
\* d.tun.Write answers if it is called.
WritePacket(senderIP, outcome) ==
  /\ wPc = "parsed"
  /\ wSender' = senderIP
  /\ IF wIsIPv6
     THEN /\ wPc' = "returned"
          /\ wRet' = "nil"
          /\ UNCHANGED <<wBuf, wTun>>
     ELSE WriteRewritten(senderIP, outcome)
  /\ UNCHANGED <<wPacket, wSrc, wDst, wIsIPv6, wOrig, wRecalcs, notWriteVars>>

\* The caller is done with the packet: PutTempPacket (lines 82-85) clears
\* it, which drops the views and the flag and keeps Buffer, and puts it
\* into the pool.  The pool holds the packet with the bytes of its Buffer.
\* The record of the call (wOrig, wSender, wRet, wTun, wRecalcs) ends with
\* it.  The model follows one packet from its stream to the pool.
WriteDone ==
  /\ wPc \in {"rejected", "returned"}
  /\ wPc' = "put"
  /\ pkts' = Bind(pkts, nextPtr,
                  clear([Buffer |-> wBuf, Packet |-> wPacket, Src |-> wSrc,
                         Dst |-> wDst, IsIPv6 |-> wIsIPv6]))
  /\ pool' = pool \cup {nextPtr}
  /\ nextPtr' = nextPtr + 1
  /\ wPacket' = NilView
  /\ wSrc' = NilView
  /\ wDst' = NilView
  /\ wIsIPv6' = FALSE
  /\ wOrig' = [k \in 1..WBufLen |-> 0]
  /\ wSender' = <<>>
  /\ wRet' = "none"
  /\ wTun' = <<>>
  /\ wRecalcs' = <<>>
  /\ UNCHANGED <<wBuf, rdPc, data, outboundCh, hand, tunClosed, tunSupplied,
                 accepted, received, evPc, mtu, streamVars, poolUserVars,
                 hostVars, readVars, eventVars>>

(***************************************************************************)
(* ==================  The loop of Packet.ReadFrom  ====================== *)
(***************************************************************************)

\* The room of Buffer behind the TUN header: len(data.Buffer[4:]).
ReadRoom == maxContentSize - tunPacketOffset

\* The smallest number of bytes one stream.Read delivers in this model when
\* more are left; the others are interfaceMTU and the whole of Buffer.
SmallChunk == 500
ChunkSizes == {SmallChunk, interfaceMTU, maxContentSize}

\* The lengths of the streams: empty, short, one byte less than the room of
\* Buffer, exactly the room, and more than the room.
StreamLens ==
  {0, IPv4HeaderLen, interfaceMTU, ReadRoom - 1, ReadRoom, ReadRoom + 1,
   ReadRoom + SmallChunk}

InitRead ==
  rf = [pc |-> "idle", totalRead |-> 0, len |-> 0, left |-> 0,
        eofOnEmpty |-> FALSE, Packet |-> NilView, n |-> 0, err |-> "none",
        spun |-> FALSE, turn |-> 0]

\* data.ReadFrom(stream) is called on a packet from GetTempPacket (Packet is
\* nil) with a stream that holds len bytes and then reports io.EOF;
\* eofOnEmpty says how the stream answers a Read into an empty slice at its
\* end: with (0, io.EOF) or with (0, nil), both allowed to an io.Reader.
\* Line 197: totalRead = tunPacketOffset.
ReadFromCall(len, eofOnEmpty) ==
  /\ rf.pc = "idle"
  /\ rf' = [rf EXCEPT !.pc = "loop", !.totalRead = tunPacketOffset,
                      !.len = len, !.left = len, !.eofOnEmpty = eofOnEmpty]
  /\ UNCHANGED notReadVars

\* The return of line 201-203: Packet is set, the count is returned.
ReadFromEOF(r, totalRead) ==
  [r EXCEPT !.pc = "returned", !.totalRead = totalRead,
            !.Packet = View(tunPacketOffset, totalRead),
            !.n = totalRead - tunPacketOffset, !.err = "nil"]

\* One turn of the loop (lines 198-206) in which stream.Read returns bytes,
\* io.EOF or both.  An io.Reader answers a Read into an empty slice with
\* n = 0, and with a nil error while bytes are left; with room in the slice
\* and bytes left it delivers at least one byte.  rf.turn is the parity of
\* the number of turns the loop has made.
StreamRead ==
  /\ rf.pc = "loop"
  /\ LET room == maxContentSize - rf.totalRead
     IN  IF room = 0
         THEN IF rf.left = 0 /\ rf.eofOnEmpty
              THEN rf' = ReadFromEOF(rf, rf.totalRead)
              ELSE rf' = [rf EXCEPT !.spun = TRUE, !.turn = 1 - @]
         ELSE IF rf.left = 0
         THEN rf' = ReadFromEOF(rf, rf.totalRead)
         ELSE \E chunk \in ChunkSizes, eofWithData \in BOOLEAN :
                LET n == Min(chunk, Min(room, rf.left))
                    totalRead == rf.totalRead + n
                IN  IF eofWithData /\ n = rf.left
                    THEN rf' = [ReadFromEOF(rf, totalRead) EXCEPT !.left = 0]
                    ELSE rf' = [rf EXCEPT !.totalRead = totalRead,
                                          !.left = @ - n, !.turn = 1 - @]
  /\ UNCHANGED notReadVars

\* One turn of the loop in which stream.Read returns an error other than
\* io.EOF, with or without bytes (lines 204-205): the count and the error
\* are returned, Packet is not assigned.
StreamReadError ==
  /\ rf.pc = "loop"
  /\ \E chunk \in ChunkSizes \cup {0} :
       LET n == Min(chunk, Min(maxContentSize - rf.totalRead, rf.left))
       IN  rf' = [rf EXCEPT !.pc = "returned", !.totalRead = @ + n,
                            !.left = @ - n,
                            !.n = rf.totalRead + n - tunPacketOffset,
                            !.err = "err"]
  /\ UNCHANGED notReadVars

\* The caller puts the packet back: PutTempPacket (lines 82-85) clears it,
\* which drops Packet and keeps Buffer, and puts it into the pool.  The
\* streams of this model hold zero bytes (ReadFrom does not look at what it
\* reads), so Buffer is a buffer of zeros into which rf.n bytes of no TUN
\* datagram were read.  The model follows one packet from its stream to
\* the pool.
ReadFromDone ==
  /\ rf.pc = "returned"
  /\ pkts' = Bind(pkts, nextPtr,
                  clear([Buffer |-> [id |-> 0, b0 |-> 0, size |-> rf.n],
                         Packet |-> rf.Packet, Src |-> NilView,
                         Dst |-> NilView, IsIPv6 |-> FALSE]))
  /\ pool' = pool \cup {nextPtr}
  /\ nextPtr' = nextPtr + 1
  /\ rf' = [pc |-> "put", totalRead |-> 0, len |-> 0, left |-> 0,
            eofOnEmpty |-> FALSE, Packet |-> NilView, n |-> 0,
            err |-> "none", spun |-> FALSE, turn |-> 0]
  /\ UNCHANGED <<rdPc, data, outboundCh, hand, tunClosed, tunSupplied,
                 accepted, received, evPc, mtu, streamVars, writeVars,
                 poolUserVars, hostVars, eventVars>>

(***************************************************************************)
(* ============  Application.Init and the P2p host lifecycle  ============ *)
(***************************************************************************)

\* Bootstrap addresses the configuration holds.
MaxPeers == 3

\* Number of EvtLocalReachabilityChanged events emitted in a behaviour.
MaxEvents == 2

\* eventbus.BufSize(64): capacity of the subscription's channel.
eventbusBufSize == 64

Peers == 1..MaxPeers

\* How a dial of a bootstrap peer ends: p.host.Connect returns nil, an
\* error, context.Canceled, or the error of the 2-second deadline.
DialOutcomes == {"ok", "failed", "canceled", "deadline"}

\* The SetStreamHandler calls and the go statements of Application.Init, in
\* the order of the source.
HandlerOrder == <<"PortForwardingMethod", "GetStatusMethod", "AuthMethod">>
TaskOrder ==
  <<"MaintainBackgroundConnections", "BackgroundRetryAuthRequests",
    "BackgroundExchangeStatusInfo">>

\* network.Reachability
ReachabilityUnknown == "Unknown"
ReachabilityPublic == "Public"
ReachabilityPrivate == "Private"
Reachabilities == {ReachabilityUnknown, ReachabilityPublic, ReachabilityPrivate}

\* NewP2p (lines 230-238) and New (lines 50-52): nothing is set, the
\* reachability is the zero value.
InitApp ==
  /\ p2p = [dht |-> FALSE, basicHost |-> FALSE, host |-> FALSE,
            notifee |-> FALSE, subscribed |-> FALSE, ctxCancelled |-> FALSE,
            reachability |-> ReachabilityUnknown, written |-> <<>>]
  /\ app = [pc |-> "start", handlers |-> <<>>, tasks |-> <<>>, ret |-> "none"]
  /\ boot = [pc |-> "idle", peers |-> 0, idx |-> 1,
             parsed |-> [i \in Peers |-> "unread"],
             dial |-> [i \in Peers |-> "none"],
             dhtBootstraps |-> 0, dhtResult |-> "none", ret |-> "none"]
  /\ bus = [queue |-> <<>>, emitted |-> <<>>, read |-> "none",
            expect |-> "none", settled |-> FALSE]
  /\ closing = [pc |-> "idle", log |-> <<>>, dhtErr |-> <<>>,
                hostErr |-> <<>>, ret |-> "none"]

\* InitHost, lines 241-254: the private key is generated or unmarshalled.
InitHostKey(ok) ==
  /\ app.pc = "start"
  /\ app' = IF ok THEN [app EXCEPT !.pc = "key"]
            ELSE [app EXCEPT !.pc = "returned", !.ret = "errInitHost"]
  /\ UNCHANGED <<p2p, boot, bus, closing, notHostVars>>

\* The Routing option of libp2p.New (lines 295-309): dht.New, p.dht and
\* p.basicHost are assigned; an error of dht.New fails libp2p.New, and
\* InitHost and Init return it.
LibP2pRouting(ok) ==
  /\ app.pc = "key"
  /\ p2p' = [p2p EXCEPT !.dht = ok, !.basicHost = TRUE]
  /\ app' = IF ok THEN [app EXCEPT !.pc = "routed"]
            ELSE [app EXCEPT !.pc = "returned", !.ret = "errInitHost"]
  /\ UNCHANGED <<boot, bus, closing, notHostVars>>

\* libp2p.New returns (lines 277-321): with the host, or with an error
\* (before or after the Routing option ran) that InitHost and Init return.
LibP2pNew(ok) ==
  /\ app.pc \in {"key", "routed"}
  /\ app.pc = "key" => ~ok
  /\ p2p' = [p2p EXCEPT !.host = ok]
  /\ app' = IF ok THEN [app EXCEPT !.pc = "made"]
            ELSE [app EXCEPT !.pc = "returned", !.ret = "errInitHost"]
  /\ UNCHANGED <<boot, bus, closing, notHostVars>>

\* InitHost, lines 323-349: the notifyBundle is installed, listenEventbus
\* subscribes, the host is returned.
InitHostNotify ==
  /\ app.pc = "made"
  /\ p2p' = [p2p EXCEPT !.notifee = TRUE, !.subscribed = TRUE]
  /\ app' = [app EXCEPT !.pc = "hostReady"]
  /\ UNCHANGED <<boot, bus, closing, notHostVars>>

\* Init, lines 60-68, and Bootstrap, lines 503-507: Bootstrap is called
\* with n addresses in the configuration.
BootstrapCall(n) ==
  /\ app.pc = "hostReady"
  /\ app' = [app EXCEPT !.pc = "bootstrap"]
  /\ boot' = [boot EXCEPT !.pc = "loop", !.peers = n]
  /\ UNCHANGED <<p2p, bus, closing, notHostVars>>

\* Bootstrap, one iteration of the loop (lines 509-525): the address parses
\* or not; if it does, wg.Add(1) and the dial goroutine is started.  After
\* the last address Bootstrap goes on to wg.Wait().
BootstrapLoop(parses) ==
  /\ boot.pc = "loop"
  /\ boot' = IF boot.idx > boot.peers THEN [boot EXCEPT !.pc = "wait"]
             ELSE IF parses
             THEN [boot EXCEPT !.idx = @ + 1, !.parsed[boot.idx] = "ok",
                               !.dial[boot.idx] = "running"]
             ELSE [boot EXCEPT !.idx = @ + 1, !.parsed[boot.idx] = "bad"]
  /\ UNCHANGED <<p2p, app, bus, closing, notHostVars>>

\* A dial goroutine (lines 517-524): Connect returns, the result is logged,
\* wg.Done().
DialDone(i, outcome) ==
  /\ boot.dial[i] = "running"
  /\ boot' = [boot EXCEPT !.dial[i] = outcome]
  /\ UNCHANGED <<p2p, app, bus, closing, notHostVars>>

\* Bootstrap goes on although dial goroutines are still running.
BootstrapWaitNoBarrier ==
  /\ boot.pc = "wait"
  /\ boot' = [boot EXCEPT !.pc = "dht"]
  /\ UNCHANGED <<p2p, app, bus, closing, notHostVars>>

\* wg.Wait() returns (line 526): every dial goroutine has called wg.Done().
BootstrapWait ==
  /\ boot.pc = "wait"
  /\ \A i \in Peers : boot.dial[i] # "running"
  /\ boot' = [boot EXCEPT !.pc = "dht"]
  /\ UNCHANGED <<p2p, app, bus, closing, notHostVars>>

\* Bootstrap that also fails when a dial did not succeed.
BootstrapDhtStrict(ok) ==
  /\ boot.pc = "dht"
  /\ boot' = [boot EXCEPT !.pc = "done", !.dhtBootstraps = @ + 1,
                          !.dhtResult = IF ok THEN "ok" ELSE "err",
                          !.ret = IF ok /\ \A i \in Peers :
                                             boot.dial[i] \in {"none", "ok"}
                                  THEN "nil" ELSE "errBootstrapDht"]
  /\ UNCHANGED <<p2p, app, bus, closing, notHostVars>>

\* p.dht.Bootstrap(p.ctx) and the return of Bootstrap (lines 529-533).
BootstrapDht(ok) ==
  /\ boot.pc = "dht"
  /\ boot' = [boot EXCEPT !.pc = "done", !.dhtBootstraps = @ + 1,
                          !.dhtResult = IF ok THEN "ok" ELSE "err",
                          !.ret = IF ok THEN "nil" ELSE "errBootstrapDht"]
  /\ UNCHANGED <<p2p, app, bus, closing, notHostVars>>

\* Init that goes on whatever Bootstrap returned.
InitAfterBootstrapIgnoresError ==
  /\ app.pc = "bootstrap"
  /\ boot.pc = "done"
  /\ app' = [app EXCEPT !.pc = "handlers"]
  /\ UNCHANGED <<p2p, boot, bus, closing, notHostVars>>

\* Init, lines 68-75: Bootstrap has returned; its error is returned, or the
\* services are made.
InitAfterBootstrap ==
  /\ app.pc = "bootstrap"
  /\ boot.pc = "done"
  /\ app' = IF boot.ret = "nil" THEN [app EXCEPT !.pc = "handlers"]
            ELSE [app EXCEPT !.pc = "returned", !.ret = boot.ret]
  /\ UNCHANGED <<p2p, boot, bus, closing, notHostVars>>

\* Init, lines 77-83: the next host.SetStreamHandler; after the last one
\* the API handler is set up.
SetStreamHandler ==
  /\ app.pc = "handlers"
  /\ LET attached == Append(app.handlers, HandlerOrder[Len(app.handlers) + 1])
     IN  app' = [app EXCEPT !.handlers = attached,
                            !.pc = IF Len(attached) = Len(HandlerOrder)
                                   THEN "tasks" ELSE "handlers"]
  /\ UNCHANGED <<p2p, boot, bus, closing, notHostVars>>

\* Init, lines 85-89: the next go statement; after the last one Init
\* returns nil.
StartTask ==
  /\ app.pc = "tasks"
  /\ LET started == Append(app.tasks, TaskOrder[Len(app.tasks) + 1])
     IN  app' = [app EXCEPT !.tasks = started,
                            !.pc = IF Len(started) = Len(TaskOrder)
                                   THEN "returned" ELSE "tasks",
                            !.ret = IF Len(started) = Len(TaskOrder)
                                    THEN "nil" ELSE "none"]
  /\ UNCHANGED <<p2p, boot, bus, closing, notHostVars>>

\* An error value is the sequence of the errors it combines; nil is the
\* empty sequence.  multierr.Append(left, right) combines the errors of
\* both and is nil when both are nil.
MultierrAppend(left, right) == left \o right

\* P2p.Close, line 353: p.ctxCancel().  Close is called on a host that
\* InitHost has made, after Init has returned.
CloseCancel ==
  /\ closing.pc = "idle"
  /\ app.pc = "returned"
  /\ p2p.host
  /\ p2p' = [p2p EXCEPT !.ctxCancelled = TRUE]
  /\ closing' = [closing EXCEPT !.pc = "cancelled",
                                !.log = Append(@, "ctxCancel")]
  /\ UNCHANGED <<app, boot, bus, notHostVars>>

\* Close that returns the error of p.dht.Close() without closing the host.
CloseDhtOrReturn(ok) ==
  /\ closing.pc = "cancelled"
  /\ closing' = IF ok
                THEN [closing EXCEPT !.pc = "dhtClosed",
                                     !.log = Append(@, "dht.Close")]
                ELSE [closing EXCEPT !.pc = "returned",
                                     !.log = Append(@, "dht.Close"),
                                     !.dhtErr = <<"DhtClose">>,
                                     !.ret = <<"DhtClose">>]
  /\ UNCHANGED <<p2p, app, boot, bus, notHostVars>>

\* P2p.Close, line 355: p.dht.Close(), the first argument of
\* multierr.Append.
CloseDht(ok) ==
  /\ closing.pc = "cancelled"
  /\ closing' = [closing EXCEPT !.pc = "dhtClosed",
                                !.log = Append(@, "dht.Close"),
                                !.dhtErr = IF ok THEN <<>> ELSE <<"DhtClose">>]
  /\ UNCHANGED <<p2p, app, boot, bus, notHostVars>>

\* P2p.Close, line 356: p.host.Close(), the second argument.
CloseHost(ok) ==
  /\ closing.pc = "dhtClosed"
  /\ closing' = [closing EXCEPT !.pc = "hostClosed",
                                !.log = Append(@, "host.Close"),
                                !.hostErr = IF ok THEN <<>>
                                            ELSE <<"HostClose">>]
  /\ UNCHANGED <<p2p, app, boot, bus, notHostVars>>

\* P2p.Close, lines 354 and 358: multierr.Append and the return.
CloseReturn ==
  /\ closing.pc = "hostClosed"
  /\ closing' = [closing EXCEPT !.pc = "returned",
                                !.ret = MultierrAppend(closing.dhtErr,
                                                       closing.hostErr)]
  /\ UNCHANGED <<p2p, app, boot, bus, notHostVars>>

(***************************************************************************)
(* ========================  Specifications  ============================= *)
(***************************************************************************)

\* Every subsystem as its constructor leaves it.
Init ==
  InitStreams /\ InitTun /\ InitWrite /\ InitPoolUser /\ InitApp /\ InitRead

NextStreams ==
  \/ \E s \in Streams, d \in Directions : OpenedStreamAdd(s, d)
  \/ \E s \in Streams : OpenedStreamDir(s)
  \/ \E s \in Streams : StreamClosed(s)
  \/ OpenStreamsCount
  \/ TotalStreamsInbound
  \/ TotalStreamsOutbound

SpecStreams == Init /\ [][NextStreams]_vars

\* The packet pipeline and the shutdown of both readers.  Device.mtu is
\* written by tunEventsReader alone and read by none of these actions, so
\* the events the device delivers before it is closed are left to
\* SpecEvents.
NextTun ==
  \/ ReaderTop
  \/ TunReadValid
  \/ TunReadJunk
  \/ TunReadEOF
  \/ TunReadError
  \/ ReaderSend
  \/ ConsumerRecv
  \/ ConsumerPut
  \/ Close
  \/ TunEventsReaderExit

SpecTun == Init /\ [][NextTun]_vars

\* tunEventsReader from the start of the device to its close.
NextEvents ==
  \/ \E event \in TunEvents, q \in MtuAnswers : TunEventsReaderEvent(event, q)
  \/ Close
  \/ TunEventsReaderExit

SpecEvents == Init /\ [][NextEvents]_vars

\* The Go scheduler runs a goroutine that can take a step: the reader at the
\* top of its loop, the reader whose send has room, the reader whose read
\* of the closed device returns, the event reader whose channel is closed.
\* Nothing obliges the TUN to deliver a datagram or the consumer to receive.
FairSpecTun ==
  /\ SpecTun
  /\ WF_vars(ReaderTop)
  /\ WF_vars(ReaderSend)
  /\ WF_vars(TunReadEOF)
  /\ WF_vars(TunEventsReaderExit)

\* The pool and its users: the reader checks packets out, the consumer of
\* the channel puts them back as Parse left them, and another user makes
\* round trips.
NextPool ==
  \/ ReaderTop
  \/ TunReadValidSome
  \/ TunReadJunk
  \/ ReaderSend
  \/ ConsumerRecv
  \/ ConsumerPut
  \/ RoundTripGet
  \/ RoundTripPut

SpecPool == Init /\ [][NextPool]_vars

\* The inbound path: a stream is read into a packet, parsed, written to the
\* TUN device, and the packet is given back.
NextWrite ==
  \/ \E b0 \in FirstBytes, proto \in Protocols, n \in PacketLens,
        stale \in StaleFills : ReadFrom(StreamBytes(b0, proto, n), stale)
  \/ ParsePacket
  \/ \E senderIP \in SenderIPs, outcome \in TunWriteOutcomes :
        WritePacket(senderIP, outcome)
  \/ WriteDone

SpecWrite == Init /\ [][NextWrite]_vars

\* Packets as the streams deliver them, parsed, and their checksums
\* regenerated MaxRecalcs times.
NextRecalc ==
  \/ \E b0 \in FirstBytes, proto \in Protocols, n \in PacketLens,
        stale \in StaleFills : ReadFrom(StreamBytes(b0, proto, n), stale)
  \/ ParsePacket
  \/ Recalculate
  \/ WriteDone

SpecRecalc == Init /\ [][NextRecalc]_vars

\* Calls of Packet.ReadFrom, one after the other.
NextRead ==
  \/ \E len \in StreamLens, eofOnEmpty \in BOOLEAN :
        ReadFromCall(len, eofOnEmpty)
  \/ StreamRead
  \/ StreamReadError
  \/ ReadFromDone

SpecRead == Init /\ [][NextRead]_vars

\* The goroutine that called ReadFrom runs, and the stream answers each
\* Read; nothing obliges the stream to fail.
FairSpecRead == SpecRead /\ WF_vars(StreamRead)

\* Packet.ReadFrom followed by Packet.Parse, and the next stream after a
\* packet Parse rejected.
NextParse ==
  \/ \E b0 \in FirstBytes, proto \in Protocols, n \in PacketLens,
        stale \in StaleFills : ReadFrom(StreamBytes(b0, proto, n), stale)
  \/ ParsePacket
  \/ WriteDone

SpecParse == Init /\ [][NextParse]_vars

\* The host emits EvtLocalReachabilityChanged with reachability r: the
\* event goes into the channel of the subscription made by listenEventbus
\* (line 538-542); the emitter blocks while the channel is full.
EmitReachability(r) ==
  /\ p2p.subscribed
  /\ Len(bus.emitted) < MaxEvents
  /\ Len(bus.queue) < eventbusBufSize
  /\ bus' = [bus EXCEPT !.queue = Append(@, r), !.emitted = Append(@, r)]
  /\ UNCHANGED <<p2p, app, boot, closing, notHostVars>>

\* awlevent.WrapSubscriptionToCallback: one task takes the events from the
\* subscription in the order of delivery and calls the callback of lines
\* 539-542 with each, until p.ctx is cancelled; the callback assigns
\* p.reachability.
EventbusConsume ==
  /\ bus.queue # <<>>
  /\ ~p2p.ctxCancelled
  /\ p2p' = [p2p EXCEPT !.reachability = Head(bus.queue),
                        !.written = Append(@, Head(bus.queue))]
  /\ bus' = [bus EXCEPT !.queue = Tail(@)]
  /\ UNCHANGED <<app, boot, closing, notHostVars>>

\* The values a read of p.reachability from another goroutine may observe.
\* The assignment of line 541 and the read of line 416 are plain accesses
\* with no synchronisation between them (a data race): the read observes
\* the zero value or any write that nothing orders before a later write
\* the read is ordered after, that is, any value written so far.
ObservableReachabilities ==
  {ReachabilityUnknown} \cup {p2p.written[i] : i \in 1..Len(p2p.written)}

\* Reachability(), lines 415-417, called from a goroutine other than the
\* consumer. bus.settled records whether every event delivered had been
\* processed by the consumer when the call was made, bus.expect the
\* reachability of the last event delivered until then.
Reachability ==
  /\ p2p.host
  /\ \E v \in ObservableReachabilities :
       bus' = [bus EXCEPT !.read = v,
                          !.settled = (bus.queue = <<>>),
                          !.expect = IF bus.emitted = <<>>
                                       THEN ReachabilityUnknown
                                       ELSE bus.emitted[Len(bus.emitted)]]
  /\ UNCHANGED <<p2p, app, boot, closing, notHostVars>>

\* Application.Init with P2p.InitHost and P2p.Bootstrap.
NextInit ==
  \/ \E ok \in BOOLEAN : InitHostKey(ok)
  \/ \E ok \in BOOLEAN : LibP2pRouting(ok)
  \/ \E ok \in BOOLEAN : LibP2pNew(ok)
  \/ InitHostNotify
  \/ \E n \in 0..MaxPeers : BootstrapCall(n)
  \/ \E parses \in BOOLEAN : BootstrapLoop(parses)
  \/ \E i \in Peers, outcome \in DialOutcomes : DialDone(i, outcome)
  \/ BootstrapWait
  \/ \E ok \in BOOLEAN : BootstrapDht(ok)
  \/ InitAfterBootstrap
  \/ SetStreamHandler
  \/ StartTask

SpecInit == Init /\ [][NextInit]_vars

\* The host from Init to Close.
NextHost ==
  \/ NextInit
  \/ CloseCancel
  \/ \E ok \in BOOLEAN : CloseDht(ok)
  \/ \E ok \in BOOLEAN : CloseHost(ok)
  \/ CloseReturn

SpecHost == Init /\ [][NextHost]_vars

\* The construction of the host, the reachability events, their consumer
\* and the readers of the cached reachability.
NextReach ==
  \/ \E ok \in BOOLEAN : InitHostKey(ok)
  \/ \E ok \in BOOLEAN : LibP2pRouting(ok)
  \/ \E ok \in BOOLEAN : LibP2pNew(ok)
  \/ InitHostNotify
  \/ \E r \in Reachabilities : EmitReachability(r)
  \/ EventbusConsume
  \/ Reachability

SpecReach == Init /\ [][NextReach]_vars

(***************************************************************************)
(* ============================  Claims  ================================= *)
(***************************************************************************)

\* Streams whose OpenedStreamF stands between its two atomic operations.
MidOpen == {s \in Streams : stStage[s] = "opening"}

\* Streams that are open and have neither the inbound nor the outbound
\* direction.
OpenUndirected ==
  {s \in Streams : stStage[s] = "open" /\ stDir[s] \notin {DirInbound, DirOutbound}}

\* Streams that were closed with no OpenedStream notification before.
ClosedEarly == {s \in Streams : stStage[s] = "closedEarly"}

\* C1: in every reachable state, from the construction of the host on,
\* open_streams_count >= 0 and
\* total_streams_inbound + total_streams_outbound >= open_streams_count.
C1_AsStated ==
  /\ openedStreams >= 0
  /\ totalStreamsInbound + totalStreamsOutbound >= openedStreams

\* What the counters do hold: the open count is the number of streams
\* OpenedStreamF counted and ClosedStreamF has not, less the streams closed
\* without having been counted; the totals count the inbound and outbound
\* streams whose OpenedStreamF has returned.
StreamCounts ==
  /\ openedStreams =
       Cardinality({s \in Streams : stStage[s] \in {"opening", "open"}})
         - Cardinality(ClosedEarly)
  /\ totalStreamsInbound =
       Cardinality({s \in Streams : /\ stStage[s] \in {"open", "closed"}
                                    /\ stDir[s] = DirInbound})
  /\ totalStreamsOutbound =
       Cardinality({s \in Streams : /\ stStage[s] \in {"open", "closed"}
                                    /\ stDir[s] = DirOutbound})
  /\ totalStreamsInbound + totalStreamsOutbound
       >= openedStreams - Cardinality(MidOpen) - Cardinality(OpenUndirected)

\* A stream opened before Notify has been closed: the open count is
\* negative, and a getter has returned it.
NegativeOpenCount ==
  /\ ClosedEarly # {}
  /\ openedStreams < 0
  /\ lastRead[1] = "open"
  /\ lastRead[2] < 0

\* With no stream closed early the open count is not negative.
OpenCountOfNotifiedStreams ==
  ClosedEarly = {} => openedStreams >= 0

\* ---------------------------------------------------------------------
\* The datagram each queued packet carries, oldest first.
ChanDgrams == [i \in 1..Len(outboundCh) |-> pkts[outboundCh[i]].Buffer.id]

\* The datagram the reader holds for its pending send.
InSend == IF rdPc = "send" THEN <<pkts[data].Buffer.id>> ELSE <<>>

IsPrefix(s, u) ==
  /\ Len(s) <= Len(u)
  /\ \A i \in 1..Len(s) : s[i] = u[i]

\* C2: the consumer receives the accepted datagrams in the order in which
\* they were read from the TUN: what it has received is the front of the
\* accepted sequence, the channel holds the next ones in order, nothing is
\* duplicated or reordered (the TUN numbers its datagrams in read order),
\* and the packet in the consumer's hands still carries the datagram it
\* was sent with.
C2_Fifo ==
  /\ IsPrefix(received \o ChanDgrams, accepted)
  /\ \A i \in 1..(Len(accepted) - 1) : accepted[i] < accepted[i + 1]
  /\ hand # NilPacket => pkts[hand].Buffer.id = received[Len(received)]

\* C2 witness: two packets received in order while later ones, read after
\* dropped datagrams, wait in the channel.
C2_Witness ==
  /\ received = <<1, 2>>
  /\ Len(outboundCh) >= 2
  /\ Len(accepted) >= 4

\* The reader is blocked: it holds an accepted packet and the channel is full.
BlockedOnSend == rdPc = "send" /\ Len(outboundCh) = outboundChCap

\* C3: the channel never holds more than outboundChCap packets; every
\* accepted datagram is with the consumer, in the channel or in the
\* reader's pending send; while the channel is full the blocked reader
\* neither reads the TUN nor lets go of its packet; and if the consumer
\* never receives while the device stays open, the reader stays alive and
\* the TUN keeps supplying valid datagrams, the reader ends up blocked on
\* the send for good.
C3_Backpressure ==
  /\ [](Len(outboundCh) <= outboundChCap)
  /\ [](accepted = received \o ChanDgrams \o InSend)
  /\ [][BlockedOnSend =>
          /\ rdPc' = "send"
          /\ data' = data
          /\ pkts'[data] = pkts[data]
          /\ tunSupplied' = tunSupplied
          /\ accepted' = accepted]_vars
  /\ ( /\ [](received = <<>>)
       /\ []~tunClosed
       /\ [](rdPc # "done")
       /\ SF_vars(TunReadValid) )
     => <>[]BlockedOnSend

\* C3 witness: the reader blocked on a full channel of the open device.
C3_Witness == BlockedOnSend /\ ~tunClosed /\ received = <<>>

\* Every packet a holder other than the reader's read has: in the channel,
\* in the consumer's hands, in the reader's pending send.
Emitted ==
  {outboundCh[i] : i \in 1..Len(outboundCh)}
    \cup (IF hand = NilPacket THEN {} ELSE {hand})
    \cup (IF rdPc = "send" THEN {data} ELSE {})

\* C4: every emitted packet has a payload of 1..maxContentSize bytes which
\* is Buffer[tunPacketOffset .. tunPacketOffset + size], a version and a
\* length that Parse accepts, and for IPv4 the views src = packet[12..16]
\* and dst = packet[16..20]; and a read of size 0, of a size above
\* maxContentSize or of a datagram that Parse rejects emits nothing, and
\* the reader goes on to its next read with the packet it has.
C4_EmittedValid ==
  /\ [](\A ptr \in Emitted :
          LET p == pkts[ptr]
          IN  /\ ~p.Packet.nil
              /\ ViewLen(p.Packet) \in 1..maxContentSize
              /\ p.Packet = View(tunPacketOffset, tunPacketOffset + p.Buffer.size)
              /\ \/ p.Buffer.b0 \div 16 = 4 /\ ViewLen(p.Packet) >= 20
                 \/ p.Buffer.b0 \div 16 = 6 /\ ViewLen(p.Packet) >= 40
              /\ ParseCore(p.Buffer.b0, ViewLen(p.Packet)).ok
              /\ p.IsIPv6 = (p.Buffer.b0 \div 16 = 6)
              /\ ~p.IsIPv6 => p.Src = View(12, 16) /\ p.Dst = View(16, 20))
  /\ [][(rdPc = "read" /\ rdPc' \notin {"read", "done"}) =>
          LET d == pkts'[data].Buffer
          IN  (d.size = 0 \/ d.size > maxContentSize
                 \/ ~ParseCore(d.b0, d.size).ok)
              => /\ rdPc' = "top"
                 /\ data' = data
                 /\ outboundCh' = outboundCh
                 /\ accepted' = accepted]_vars

\* C4 witness: an IPv4 and an IPv6 packet are in the channel and the reader
\* has just dropped a read of maxContentSize + 1 bytes.
C4_Witness ==
  /\ \E i \in 1..Len(outboundCh) : ~pkts[outboundCh[i]].IsIPv6
  /\ \E i \in 1..Len(outboundCh) : pkts[outboundCh[i]].IsIPv6
  /\ rdPc = "top"
  /\ data # NilPacket
  /\ pkts[data].Buffer.size = maxContentSize + 1

\* The pointers the channel holds.
InChan == {outboundCh[i] : i \in 1..Len(outboundCh)}

\* C5: a packet has one holder at a time: the reader, one slot of the
\* channel, the consumer or the pool.  A packet that the reader has sent is
\* not changed while it is in the channel or with the consumer; after a
\* send the reader holds nothing and its next packet comes from a check-out;
\* after a drop it keeps its packet and checks nothing out, so the pool is
\* as it was.
C5_Ownership ==
  /\ [](/\ Cardinality(InChan) = Len(outboundCh)
        /\ data \notin InChan \cup {hand} \cup pool \/ data = NilPacket
        /\ hand \notin InChan \cup pool \/ hand = NilPacket
        /\ InChan \cap pool = {}
        /\ rdPc \in {"read", "send"} => data # NilPacket)
  /\ [][\A ptr \in ((InChan \cap {outboundCh'[i] : i \in 1..Len(outboundCh')})
                      \cup ({hand} \cap {hand'})) \ {NilPacket} :
           pkts'[ptr] = pkts[ptr]]_vars
  /\ [][(rdPc = "send" /\ rdPc' = "top") =>
           /\ data' = NilPacket
           /\ outboundCh' = Append(outboundCh, data)]_vars
  /\ [][(rdPc = "top" /\ rdPc' = "read" /\ data = NilPacket) =>
           /\ data' = nextPtr
           /\ data' \notin DOMAIN pkts
           /\ Cardinality(pool') <= Cardinality(pool)]_vars
  /\ [][(rdPc = "read" /\ rdPc' = "top") =>
           /\ data' = data
           /\ pool' = pool
           /\ nextPtr' = nextPtr]_vars
  /\ [][(rdPc = "top" /\ rdPc' = "read" /\ data # NilPacket) =>
           /\ data' = data
           /\ pool' = pool
           /\ nextPtr' = nextPtr]_vars

\* C5 witness: the reader, having sent packets and dropped a read, keeps
\* its packet at the top of its loop while the channel, the consumer and
\* the pool each hold other packets.
C5_Witness ==
  /\ rdPc = "top"
  /\ data # NilPacket
  /\ outboundCh # <<>>
  /\ hand # NilPacket
  /\ pool # {}

\* C6 (as stated): whenever the device has been closed, whether or not the
\* consumer drains the channel (it is still able to: it has not taken all
\* the packets this model lets it take), both readers eventually terminate.
C6_AsStated ==
  (tunClosed /\ Len(received) < MaxRecv) ~> (rdPc = "done" /\ evPc = "done")

\* ---------------------------------------------------------------------
\* The inbound path: what WritePacket handed to the TUN device.

\* WritePacket returned nil for a packet Parse accepted as IPv4.
WriteSucceeded == wPc = "returned" /\ wRet = "nil" /\ ~wIsIPv6

\* Byte i of the packet in the buffer handed to d.tun.Write, and as ReadFrom
\* stored it.
WrittenByte(i) == wTun[1].buf[tunPacketOffset + i + 1]
OrigByte(i) == wOrig[tunPacketOffset + i + 1]

\* ihl = (packet[0] & 0x0f) << 2 and the protocol byte of the packet.
Ihl == (OrigByte(0) % 16) * 4
Proto == OrigByte(9)

\* The address fields, the header checksum field and the checksum field of
\* the transport header.
AddressAndChecksumFields ==
  (ipv4offsetChecksum..(IPv4offsetDst + IPv4len - 1))
  \cup (IF Proto = IPProtocolTCP THEN {Ihl + 16, Ihl + 17}
        ELSE IF Proto = IPProtocolUDP THEN {Ihl + 6, Ihl + 7}
        ELSE {})

\* RFC 1071: the bytes as 16-bit big-endian words (an odd last byte padded
\* with a zero byte), added in ones-complement arithmetic, complemented.
RECURSIVE WordSum(_, _)
WordSum(bytes, k) ==
  IF k > Len(bytes) THEN 0
  ELSE bytes[k] * (IF k % 2 = 1 THEN 256 ELSE 1) + WordSum(bytes, k + 1)

OnesComplementSum(bytes) ==
  LET v == WordSum(bytes, 1) IN IF v = 0 THEN 0 ELSE ((v - 1) % 65535) + 1

Rfc1071(bytes) == 65535 - OnesComplementSum(bytes)

\* One call of d.tun.Write with Buffer[0 .. 4+len(packet)] and offset 4, the
\* source is senderIP, the destination is localIP, and every other byte
\* outside the address and checksum fields is as it was received.
RewriteAsClaimed ==
  /\ Len(wTun) = 1
  /\ wTun[1].offset = tunPacketOffset
  /\ wTun[1].buf = SubSeq(wBuf, 1, tunPacketOffset + ViewLen(wPacket))
  /\ \A i \in 0..(IPv4len - 1) :
       /\ WrittenByte(IPv4offsetSrc + i) = wSender[i + 1]
       /\ WrittenByte(IPv4offsetDst + i) = localIP[i + 1]
  /\ \A i \in 0..(ViewLen(wPacket) - 1) :
       i \notin AddressAndChecksumFields => WrittenByte(i) = OrigByte(i)

\* C7 (as stated): for every packet Parse accepted as IPv4 and every
\* 4-octet sender address, after WritePacket returned nil the bytes handed
\* to the TUN device are Buffer[0 .. 4+len(packet)] with offset 4, their
\* source address is senderIP, their destination address is localIP, and no
\* other byte outside the address and checksum fields has changed.
C7_AsStated ==
  (WriteSucceeded /\ Len(wSender) = IPv4len) => RewriteAsClaimed

\* The same for the packets whose IHL nibble announces at least the 20
\* bytes of the fixed header: for these the rewrite is as claimed.
RewriteOfValidIhl ==
  (WriteSucceeded /\ Len(wSender) = IPv4len /\ Ihl >= IPv4HeaderLen)
    => RewriteAsClaimed

\* ---------------------------------------------------------------------
\* C8: for every packet whose IsIPv6 flag is set WritePacket returns nil,
\* does not call d.tun.Write, and leaves the packet bytes, the Src and Dst
\* views and the state of the device unchanged.
C8_IPv6NoOp ==
  /\ []((wPc \in {"returned", "panicked"} /\ wIsIPv6) =>
          /\ wPc = "returned"
          /\ wRet = "nil"
          /\ wTun = <<>>
          /\ wBuf = wOrig
          /\ wSrc = View(IPv6offsetSrc, IPv6offsetSrc + IPv6len)
          /\ wDst = View(IPv6offsetDst, IPv6offsetDst + IPv6len))
  /\ [][(wPc = "parsed" /\ wIsIPv6 /\ wPc' # "parsed") =>
          /\ wPc' = "returned"
          /\ wRet' = "nil"
          /\ UNCHANGED <<wBuf, wPacket, wSrc, wDst, wIsIPv6, wTun>>
          /\ UNCHANGED <<tunVars, streamVars>>]_vars

\* WritePacket has returned for an IPv6 packet and a 4-octet sender.
C8_Witness ==
  /\ wPc = "returned"
  /\ wIsIPv6
  /\ wRet = "nil"
  /\ ViewLen(wPacket) > IPv6HeaderLen
  /\ wSender = <<192, 168, 1, 5>>
  /\ wTun = <<>>

\* ---------------------------------------------------------------------
\* The header checksum field of the written packet holds the RFC 1071
\* checksum of packet[0..ihl] with the checksum field zeroed.  (A header
\* longer than the packet continues in the buffer behind the packet.)
HeaderChecksumAsClaimed ==
  LET header == [k \in 1..Ihl |->
                   IF k - 1 \in {ipv4offsetChecksum, ipv4offsetChecksum + 1}
                   THEN 0
                   ELSE wBuf[tunPacketOffset + k]]
  IN  WrittenByte(ipv4offsetChecksum) * 256
        + WrittenByte(ipv4offsetChecksum + 1) = Rfc1071(header)

\* C9 (as stated): after WritePacket returned nil for an IPv4 packet, bytes
\* 10..11 handed to the TUN device are the RFC 1071 checksum of
\* packet[0..ihl], ihl = (packet[0] & 0x0f) << 2, computed with those two
\* bytes zeroed.
C9_AsStated == WriteSucceeded => HeaderChecksumAsClaimed

\* The same for the packets whose IHL nibble announces at least 20 bytes.
HeaderChecksumOfValidIhl ==
  (WriteSucceeded /\ Ihl >= IPv4HeaderLen) => HeaderChecksumAsClaimed

\* ---------------------------------------------------------------------
\* The transport checksum of the written packet verifies: pseudo-header
\* (source, destination, zero, protocol, L4 length) and the L4 bytes, the
\* stored checksum included, add up to 0xFFFF.
L4ChecksumVerifies ==
  LET n == ViewLen(wPacket)
      l4len == n - Ihl
      pseudo == [k \in 1..12 |->
                   IF k <= 8 THEN WrittenByte(IPv4offsetSrc + k - 1)
                   ELSE IF k = 9 THEN 0
                   ELSE IF k = 10 THEN Proto
                   ELSE IF k = 11 THEN l4len \div 256
                   ELSE l4len % 256]
      l4 == [k \in 1..l4len |-> WrittenByte(Ihl + k - 1)]
  IN  OnesComplementSum(pseudo \o l4) = 65535

\* WritePacket has handed a TCP or UDP packet to the TUN device.
WroteTCPUDP ==
  /\ wPc = "returned"
  /\ ~wIsIPv6
  /\ Len(wTun) = 1
  /\ Proto \in {IPProtocolTCP, IPProtocolUDP}

\* C10 (as stated): for every IPv4 packet with protocol 6 or 17, of even or
\* odd L4 length, the transport checksum of the packet WritePacket has
\* written verifies against the pseudo-header of the rewritten addresses.
C10_AsStated == WroteTCPUDP => L4ChecksumVerifies

\* The same for the packets whose IHL nibble announces at least 20 bytes.
L4ChecksumOfValidIhl ==
  (WroteTCPUDP /\ Ihl >= IPv4HeaderLen) => L4ChecksumVerifies

\* A TCP packet with a valid IHL and an odd L4 length has been written.
WroteOddTCP ==
  /\ WroteTCPUDP
  /\ Proto = IPProtocolTCP
  /\ Ihl = IPv4HeaderLen
  /\ (ViewLen(wPacket) - Ihl) % 2 = 1

\* ---------------------------------------------------------------------
\* C11: for every packet Parse accepts as IPv4, RecalculateChecksum applied
\* twice in a row leaves exactly the bytes it leaves when applied once: the
\* second application completes and changes no byte of the buffer.
C11_Idempotent ==
  /\ (~wIsIPv6 /\ Len(wRecalcs) >= 1 /\ wRecalcs[1].panic) => wPc = "panicked"
  /\ ~wIsIPv6 =>
        \A i \in 2..Len(wRecalcs) :
          /\ ~wRecalcs[i].panic
          /\ wRecalcs[i].Buffer = wRecalcs[1].Buffer
          /\ wBuf = wRecalcs[1].Buffer

\* RecalculateChecksum has been applied twice to a TCP packet with a
\* 20-byte header and an odd L4 length whose checksums were not right as
\* received.
C11_Witness ==
  /\ wPc = "parsed"
  /\ ~wIsIPv6
  /\ Len(wRecalcs) = 2
  /\ Ihl = IPv4HeaderLen
  /\ Proto = IPProtocolTCP
  /\ (ViewLen(wPacket) - Ihl) % 2 = 1
  /\ wRecalcs[1].Buffer # wOrig

\* ---------------------------------------------------------------------
\* A clean packet: no payload view, no Src and Dst views, IsIPv6 false.
Clean(p) ==
  /\ p.Packet = NilView
  /\ p.Src = NilView
  /\ p.Dst = NilView
  /\ p.IsIPv6 = FALSE

\* What a check-out can hand out: the objects in the pool, or a new one
\* (sync.Pool.Get calls New when it finds nothing, and it may find nothing
\* at any time).
PoolView == {pkts[p] : p \in pool} \cup {NewPacket}

\* C12: every packet in the pool is clean, however its user left it before
\* PutTempPacket; every packet a check-out hands out is clean; and
\* PutTempPacket(GetTempPacket()) leaves what a later check-out can hand
\* out as it was: its GetTempPacket takes one object out of what the pool
\* can hand out, nothing touches the object while the user holds it, and
\* its PutTempPacket puts the object back as it was taken, whatever the
\* reader and the consumer do to the pool in between.
C12_PoolClean ==
  /\ [](\A p \in pool : Clean(pkts[p]))
  /\ [][nextPtr' # nextPtr => Clean(pkts'[nextPtr])]_vars
  /\ [][(tripHand = NilPacket /\ tripHand' # NilPacket) =>
          PoolView' \cup {pkts'[tripHand']} = PoolView]_vars
  /\ [][(tripHand # NilPacket /\ tripHand' = tripHand) =>
          (tripHand \notin pool' /\ pkts'[tripHand] = pkts[tripHand])]_vars
  /\ [][trips' # trips =>
          (PoolView' = PoolView \cup {pkts[tripHand]}
           /\ pool' = pool \cup {tripHand})]_vars
  /\ [][(hand # NilPacket /\ hand' = NilPacket) =>
          /\ hand \in pool'
          /\ Clean(pkts'[hand])
          /\ pkts'[hand].Buffer = pkts[hand].Buffer]_vars

\* The pool holds a packet the consumer returned after Parse had marked it
\* IPv6, the round trip has been made, and the reader holds a packet it
\* checked out.
C12_Witness ==
  /\ trips = MaxTrips
  /\ tripHand = NilPacket
  /\ \E p \in pool : pkts[p].Buffer.b0 = 96
  /\ received # <<>>
  /\ hand = NilPacket
  /\ rdPc = "read"

\* ---------------------------------------------------------------------
\* The steps of P2p.Close in their order.
CloseOrder == <<"ctxCancel", "dht.Close", "host.Close">>

\* C13: P2p.Close cancels the context, then closes the DHT, then closes the
\* host; the host is closed also when closing the DHT failed; the result is
\* nil iff both closes succeeded and otherwise holds every error that
\* occurred.
C13_CloseOrder ==
  /\ [](IsPrefix(closing.log, CloseOrder))
  /\ [](closing.log # <<>> => p2p.ctxCancelled)
  /\ [](closing.pc = "returned" =>
          /\ closing.log = CloseOrder
          /\ (closing.ret = <<>>) <=>
               (closing.dhtErr = <<>> /\ closing.hostErr = <<>>)
          /\ \A i \in 1..Len(closing.dhtErr) :
               \E j \in 1..Len(closing.ret) : closing.ret[j] = closing.dhtErr[i]
          /\ \A i \in 1..Len(closing.hostErr) :
               \E j \in 1..Len(closing.ret) :
                 closing.ret[j] = closing.hostErr[i]
          /\ Len(closing.ret) = Len(closing.dhtErr) + Len(closing.hostErr))
  /\ [][(closing.pc = "cancelled" /\ closing'.pc # "cancelled") =>
          closing'.pc = "dhtClosed"]_vars

\* Close has returned after the DHT close failed and the host close
\* succeeded.
C13_Witness ==
  /\ closing.pc = "returned"
  /\ closing.dhtErr # <<>>
  /\ closing.hostErr = <<>>
  /\ closing.log = CloseOrder

\* ---------------------------------------------------------------------
\* C14: Bootstrap starts a dial for each address that parses and for no
\* other; the dials run concurrently with each other and with the loop;
\* p.dht.Bootstrap is invoked only when the loop is over and every dial
\* started has completed, and once per call of Bootstrap.
C14_DialBarrier ==
  /\ [](\A i \in Peers :
          /\ boot.dial[i] # "none" <=> boot.parsed[i] = "ok"
          /\ boot.parsed[i] # "unread" <=> i < boot.idx
          /\ i > boot.peers => boot.parsed[i] = "unread")
  /\ [][boot'.dhtBootstraps # boot.dhtBootstraps =>
          /\ boot.idx > boot.peers
          /\ \A i \in Peers : boot.dial[i] \in DialOutcomes \cup {"none"}
          /\ \A i \in Peers : boot'.dial[i] = boot.dial[i]]_vars
  /\ [](boot.dhtBootstraps = IF boot.pc = "done" THEN 1 ELSE 0)

\* Bootstrap has returned for three addresses: one did not parse, one dial
\* failed, one succeeded.
C14_Witness ==
  /\ boot.pc = "done"
  /\ boot.peers = 3
  /\ boot.dhtBootstraps = 1
  /\ \E i, j, k \in Peers :
       /\ boot.parsed[i] = "bad"
       /\ boot.dial[j] = "failed"
       /\ boot.dial[k] = "ok"

\* Two dials are running at once while the loop has not finished.
TwoDialsRunning ==
  /\ boot.pc = "loop"
  /\ \E i, j \in Peers : i # j /\ boot.dial[i] = "running"
                               /\ boot.dial[j] = "running"

\* ---------------------------------------------------------------------
\* C15: Bootstrap returns nil whenever p.dht.Bootstrap succeeded, however
\* many addresses did not parse and however the dials ended; it returns the
\* BootstrapDht error iff p.dht.Bootstrap failed.
C15_BootstrapResult ==
  /\ boot.pc = "done" =>
       /\ boot.dhtResult \in {"ok", "err"}
       /\ boot.dhtResult = "ok" => boot.ret = "nil"
       /\ boot.ret # "nil" <=> boot.dhtResult = "err"
       /\ boot.ret \in {"nil", "errBootstrapDht"}
  /\ boot.pc # "done" => boot.ret = "none"

\* Bootstrap has returned nil although an address did not parse, a dial
\* failed and a dial ran into the deadline.
C15_Witness ==
  /\ boot.pc = "done"
  /\ boot.ret = "nil"
  /\ \E i, j, k \in Peers :
       /\ boot.parsed[i] = "bad"
       /\ boot.dial[j] = "failed"
       /\ boot.dial[k] = "deadline"

\* ---------------------------------------------------------------------
\* C16: a stream handler is attached or a background task started only
\* after p.dht and p.basicHost are set, the notifyBundle is installed and
\* Bootstrap has returned nil; when the construction of the host or
\* Bootstrap fails, Init returns that error, no stream handler is attached
\* and no background task is started.
C16_InitOrder ==
  /\ (app.handlers # <<>> \/ app.tasks # <<>>) =>
       /\ p2p.dht
       /\ p2p.basicHost
       /\ p2p.host
       /\ p2p.notifee
       /\ boot.pc = "done"
       /\ boot.ret = "nil"
  /\ app.tasks # <<>> => app.handlers = HandlerOrder
  /\ app.pc = "returned" =>
       /\ app.ret = "nil" <=> (p2p.host /\ boot.ret = "nil")
       /\ app.ret = "errInitHost" <=> ~p2p.host
       /\ app.ret = "errBootstrapDht" <=> boot.ret = "errBootstrapDht"
       /\ app.ret = "nil" =>
            app.handlers = HandlerOrder /\ app.tasks = TaskOrder
       /\ app.ret # "nil" => app.handlers = <<>> /\ app.tasks = <<>>

\* Init has returned the error of Bootstrap: the host is made, nothing is
\* attached or started.
C16_Witness ==
  /\ app.pc = "returned"
  /\ app.ret = "errBootstrapDht"
  /\ p2p.notifee
  /\ app.handlers = <<>>
  /\ app.tasks = <<>>

\* Init has returned nil with every handler attached and every task started.
InitSucceeded ==
  /\ app.pc = "returned"
  /\ app.ret = "nil"
  /\ app.handlers = HandlerOrder
  /\ app.tasks = TaskOrder

\* ---------------------------------------------------------------------
\* C17: Reachability() returns the most recent value: Unknown before any
\* event, and, once the consumer has processed every event delivered, the
\* reachability of the last event delivered.
C17_AsStated ==
  (bus.read # "none" /\ bus.settled) => bus.read = bus.expect

\* The part of C17 that does not depend on the reader: only the consumer
\* writes the cache, it applies the events in the order of delivery, and
\* the cache holds the reachability of the last event it processed.
ReachabilityWrittenInOrder ==
  /\ bus.emitted = p2p.written \o bus.queue
  /\ p2p.reachability = IF p2p.written = <<>>
                          THEN ReachabilityUnknown
                          ELSE p2p.written[Len(p2p.written)]

\* Two events were delivered and processed, and a call of Reachability()
\* made afterwards returned the reachability of the first.
StaleReachabilityRead ==
  /\ Len(p2p.written) = 2
  /\ bus.settled
  /\ bus.read = p2p.written[1]
  /\ bus.read # bus.expect

\* ---------------------------------------------------------------------
\* What C18 says of Parse on the packet held: success iff the version
\* nibble is 4 and the packet has at least 20 bytes, or the nibble is 6 and
\* it has at least 40; on success the views and IsIPv6 as stated.
VersionNibble == PacketByte(wBuf, wPacket, 0) \div 16

ParseAsClaimed ==
  LET n == ViewLen(wPacket)
      v4 == n >= 20 /\ VersionNibble = 4
      v6 == n >= 40 /\ VersionNibble = 6
  IN  /\ wPc = "parsed" <=> (v4 \/ v6)
      /\ wPc = "rejected" <=> ~(v4 \/ v6)
      /\ (wPc = "parsed" /\ v4) =>
           wSrc = View(12, 16) /\ wDst = View(16, 20) /\ ~wIsIPv6
      /\ (wPc = "parsed" /\ v6) =>
           wSrc = View(8, 24) /\ wDst = View(24, 40) /\ wIsIPv6

\* C18: Parse is total over all packet contents, the empty packet
\* included: it never faults, and it succeeds exactly in the two cases
\* stated, with the views stated.
C18_AsStated ==
  wPc \in {"parsed", "rejected", "panicked"} =>
    wPc # "panicked" /\ ParseAsClaimed

\* The same for every packet of at least one byte.
ParseOfNonEmpty ==
  (wPc \in {"parsed", "rejected", "panicked"} /\ ViewLen(wPacket) > 0) =>
    wPc # "panicked" /\ ParseAsClaimed

\* Parse was called on the empty packet and faulted at packet[0].
ParsePanicked ==
  wPc = "panicked" /\ ViewLen(wPacket) = 0

\* Parse accepted an IPv6 packet of 40 bytes.
ParsedShortestIPv6 ==
  wPc = "parsed" /\ wIsIPv6 /\ ViewLen(wPacket) = IPv6HeaderLen

\* ---------------------------------------------------------------------
\* WritePacket has been called on a packet Parse accepted as IPv4, and has
\* returned or faulted.
WroteIPv4 ==
  /\ wPc \in {"returned", "panicked"}
  /\ ~wIsIPv6
  /\ ViewLen(wPacket) >= IPv4HeaderLen

\* The transport checksum field RecalculateChecksum writes lies inside the
\* packet, and so does the header data.Packet[:ipHeaderLen] it sums.
ChecksumFieldsInsidePacket ==
  /\ Ihl <= ViewLen(wPacket)
  /\ Proto = IPProtocolTCP => Ihl + 18 <= ViewLen(wPacket)
  /\ Proto = IPProtocolUDP => Ihl + 8 <= ViewLen(wPacket)

\* C20: for every IPv4 packet Parse accepts RecalculateChecksum, and with it
\* WritePacket, completes without an out-of-range access, and what it reads
\* and writes lies inside the packet.
C20_AsStated ==
  WroteIPv4 => (wPc = "returned" /\ Ihl <= ViewLen(wPacket))

\* WritePacket completes for every packet whose header and checksum fields
\* lie inside it.
RecalculateInRange ==
  (WroteIPv4 /\ ChecksumFieldsInsidePacket) => wPc = "returned"

\* WritePacket faulted on a TCP packet of 20 bytes with IHL 5.
WritePanicked ==
  /\ wPc = "panicked"
  /\ ViewLen(wPacket) = IPv4HeaderLen
  /\ Ihl = IPv4HeaderLen
  /\ Proto = IPProtocolTCP

\* WritePacket returned for a packet shorter than the header its IHL
\* announces: the header checksum was summed over bytes of Buffer behind the
\* packet.
HeaderReadBehindPacket ==
  /\ wPc = "returned"
  /\ ~wIsIPv6
  /\ wTun # <<>>
  /\ Ihl > ViewLen(wPacket)

\* ---------------------------------------------------------------------
\* What C19 says of the result of ReadFrom: on io.EOF Packet is
\* Buffer[4 : 4+n] and n, the number of bytes stored, is returned; on
\* another error the error is returned with the count read so far and
\* Packet is not set.
ReadFromResult ==
  rf.pc = "returned" =>
    /\ rf.n = rf.len - rf.left
    /\ rf.n = rf.totalRead - tunPacketOffset
    /\ rf.err = "nil" =>
         rf.left = 0 /\ rf.Packet = View(tunPacketOffset, tunPacketOffset + rf.n)
    /\ rf.err = "err" => rf.Packet = NilView

\* C19: ReadFrom terminates for every stream that delivers finitely many
\* bytes and then io.EOF, whatever its length relative to the room of
\* Buffer, and returns as ReadFromResult says.
C19_AsStated ==
  /\ [](rf.pc = "loop" => <>(rf.pc = "returned"))
  /\ []ReadFromResult

\* ReadFrom terminates for every stream shorter than the room of Buffer.
ReadFromTerminatesWhenShorter ==
  [](rf.pc = "loop" /\ rf.len < ReadRoom => <>(rf.pc = "returned"))

\* ReadFrom is in its loop with Buffer full and bytes left in the stream:
\* stream.Read(data.Buffer[totalRead:]) has returned (0, nil) and will again.
ReadFromSpinning ==
  /\ rf.pc = "loop"
  /\ rf.spun
  /\ rf.totalRead = maxContentSize
  /\ rf.left > 0

\* ReadFrom returned for a stream that fills the room of Buffer exactly.
ReadFromFilledBuffer ==
  /\ rf.pc = "returned"
  /\ rf.err = "nil"
  /\ rf.n = ReadRoom

\* ---------------------------------------------------------------------
\* The offsets, counted from the start of the packet, of the bytes of
\* Buffer that the first call of RecalculateChecksum on the packet left
\* different from what ReadFrom stored (the TUN header has the offsets
\* -4..-1, the bytes behind the packet the offsets from len(packet) on).
ChangedByRecalculate ==
  {k - tunPacketOffset - 1 : k \in {j \in 1..WBufLen :
                                      wRecalcs[1].Buffer[j] # wOrig[j]}}

\* The header checksum field and the checksum field of the transport header.
ChecksumFields ==
  {ipv4offsetChecksum, ipv4offsetChecksum + 1}
  \cup (IF Proto = IPProtocolTCP THEN {Ihl + 16, Ihl + 17}
        ELSE IF Proto = IPProtocolUDP THEN {Ihl + 6, Ihl + 7}
        ELSE {})

\* What C21 says of one call: an IPv6 packet is left as it was; of an IPv4
\* packet only the checksum fields change, and when the protocol is neither
\* TCP nor UDP no byte from ihl on changes.
FrameAsClaimed ==
  IF wIsIPv6 THEN ChangedByRecalculate = {}
  ELSE /\ ChangedByRecalculate \subseteq ChecksumFields
       /\ Proto \notin {IPProtocolTCP, IPProtocolUDP} =>
            \A i \in ChangedByRecalculate : i < Ihl

\* C21: RecalculateChecksum changes only checksum fields: bytes 10..11 and
\* the transport checksum field of a TCP or UDP packet; for another
\* protocol no byte from ihl on; for an IPv6 packet none.
C21_AsStated ==
  Len(wRecalcs) >= 1 => FrameAsClaimed

\* The same without the clause on the bytes from ihl on: whatever the IHL
\* nibble, and also when the call faults, nothing but the checksum fields
\* is changed.
OnlyChecksumFieldsChange ==
  Len(wRecalcs) >= 1 =>
    IF wIsIPv6 THEN ChangedByRecalculate = {}
    ELSE ChangedByRecalculate \subseteq ChecksumFields

\* The whole of C21 for the packets whose IHL nibble announces a header
\* that holds the header checksum field.
FrameOfHeaderWithChecksumField ==
  (Len(wRecalcs) >= 1 /\ Ihl > ipv4offsetChecksum + 1) => FrameAsClaimed

\* RecalculateChecksum wrote the header checksum of a packet of another
\* protocol whose IHL nibble is 0: bytes 10..11 changed and lie behind ihl.
HeaderChecksumBehindIhl ==
  /\ Len(wRecalcs) >= 1
  /\ ~wIsIPv6
  /\ Ihl = 0
  /\ Proto \notin {IPProtocolTCP, IPProtocolUDP}
  /\ ~wRecalcs[1].panic
  /\ ChangedByRecalculate = {ipv4offsetChecksum, ipv4offsetChecksum + 1}

\* RecalculateChecksum returned for a UDP packet with a header of 20 bytes
\* and changed both checksum fields.
RecalculatedUDP ==
  /\ Len(wRecalcs) >= 1
  /\ ~wIsIPv6
  /\ Ihl = IPv4HeaderLen
  /\ Proto = IPProtocolUDP
  /\ ~wRecalcs[1].panic
  /\ ChangedByRecalculate \cap {Ihl + 6, Ihl + 7} # {}
  /\ ChangedByRecalculate \cap {ipv4offsetChecksum, ipv4offsetChecksum + 1} # {}

\* ---------------------------------------------------------------------
\* tunEventsReader has processed an event; one with the EventMTUUpdate bit.
EventProcessed == evLast.event # {}
UpdateProcessed == "EventMTUUpdate" \in evLast.event

\* What C22 says of the event processed last: an update whose query
\* answered a non-negative m stored min(m, maxContentSize); a failed query,
\* a negative m, and an event without the update bit left mtu as it was.
MtuAsClaimed ==
  IF UpdateProcessed /\ ~evLast.q.err /\ evLast.q.mtu >= 0
  THEN mtu = (IF evLast.q.mtu < maxContentSize THEN evLast.q.mtu
              ELSE maxContentSize)
  ELSE mtu = evLast.old

\* C22: the event reader stores min(m, maxContentSize) on an update whose
\* query answers m >= 0, leaves mtu unchanged otherwise, and after any
\* update it has processed the stored mtu is within 0..maxContentSize.
C22_AsStated ==
  EventProcessed =>
    /\ MtuAsClaimed
    /\ UpdateProcessed => mtu \in 0..maxContentSize

\* The handling of each event is as claimed.
MtuHandling == EventProcessed => MtuAsClaimed

\* After an update that stored a value, and whenever NewDevice stored a
\* value within the range, the stored mtu is within 0..maxContentSize.
MtuInRangeWhenStored ==
  /\ (UpdateProcessed /\ ~evLast.q.err /\ evLast.q.mtu >= 0) =>
       mtu \in 0..maxContentSize
  /\ (EventProcessed /\ evLast.old \in 0..maxContentSize) =>
       mtu \in 0..maxContentSize

\* An update whose query failed was processed on a device whose MTU was
\* above maxContentSize when NewDevice read it.
MtuLeftAboveCap ==
  /\ UpdateProcessed
  /\ evLast.q.err
  /\ mtu > maxContentSize

\* An update whose query answered more than maxContentSize was capped.
MtuCapped ==
  /\ UpdateProcessed
  /\ ~evLast.q.err
  /\ evLast.q.mtu > maxContentSize
  /\ mtu = maxContentSize
  /\ evLast.old # maxContentSize

====
